---------------------------- MODULE Spec2Model ----------------------------
(***************************************************************************)
(* MidiKraft: the MIDI handler dispatch (MidiController), the bank         *)
(* download engine (Librarian) and the protocol runtime (MidiCoroutine),   *)
(* modelled as state machines.                                             *)
(*                                                                         *)
(*   SpecLibrarian  - Librarian::startDownloadingAllPatches and the        *)
(*                    handleNext... callbacks, on top of the handler       *)
(*                    registry of MidiController                           *)
(*   SpecSilentDevice - a single-bank download whose device falls silent   *)
(*                    once the user has cancelled                          *)
(*   SpecListOrder  - a user list edited entry by entry                    *)
(*   SpecDispatch   - MidiController::handleIncomingMidiMessage with       *)
(*                    reentrant subscribe / unsubscribe                    *)
(*   SpecTimeout    - the same dispatch over time, for subscribers with    *)
(*                    and without a timeout                                *)
(*   SpecCoroutine  - MidiCoroutine driven by the MIDI I/O thread and by   *)
(*                    the worker thread of runMidiCoroutineWithCallback    *)
(*   SpecOutputs    - the MIDI outputs MidiController opens and closes     *)
(*   SpecDiscovery  - AutoDetection looking for a synth on the MIDI ports  *)
(*   SpecCatalog    - the operations of PatchDatabase on its three tables  *)
(*   SpecReindex    - reindexPatches on a catalog of imported patches      *)
(*   SpecMerge      - one list of patches imported into a new catalog      *)
(*                    twice                                                *)
(*   SpecSynthBank  - the operations of SynthBank on the list of a bank    *)
(*   SpecBankCall   - one setPatches or copyListToPosition on a new or a   *)
(*                    populated bank, with what the call was handed        *)
(*   SpecPatchList  - setPatches followed by one more call on a PatchList  *)
(*   SpecInterchange - PatchInterchangeFormat: save and load of a list of  *)
(*                    holders, load of a document from elsewhere           *)
(*   SpecCategories - getNextBitindex, updateCategories and getCategorizer *)
(*                    on the categories table                              *)
(*   SpecSchema     - one open of a catalog file, with its migration       *)
(*   SpecWire       - the sends of a SafeMidiOutput                        *)
(*   SpecBankSend   - one sendBankToSynth, patch by patch                  *)
(***************************************************************************)
EXTENDS Integers, Sequences, FiniteSets, TLC

(***************************************************************************)
(* Bounds of the model.                                                    *)
(***************************************************************************)
MaxBankSize == 2        \* patches per bank are drawn from 0..MaxBankSize
MaxBanks == 2           \* length of the bank vector of a multi-bank download
MaxMessages == 3        \* MIDI messages a download collects from the device
MaxHandles == 3         \* handler handles made in a run of the dispatcher
MaxTime == 2            \* milliseconds a run of the dispatcher lasts
MaxArrivals == 3        \* MIDI messages arriving while a protocol task lives
TaskAwaits == 3         \* co_await IncomingMidiMessage the task body executes
MaxOutputs == 2         \* MIDI output endpoints of the machine
MaxOpens == 3           \* MidiOutput device objects opened in a run
MaxInputs == 2          \* MIDI input endpoints of the machine
MaxChannel == 2         \* the MIDI channels a synth may be set to are 0..MaxChannel
MaxMergeLen == 2             \* the patches of one import
MaxCatalogOps == 2           \* the operations on the catalog
MaxEntries == 3              \* the rows of patch_in_list
MaxListLen == 1              \* the patches of a list that is stored
SlotsInBank == 2        \* bankSize() of the bank number: the patches a bank of the synth holds
MaxBankOps == 2         \* the calls made on a SynthBank
MaxGiven == 3           \* the patches of a list handed to a SynthBank
MaxSaved == 2           \* the holders written to an interchange document
MaxDocumentLen == 3     \* the entries of an interchange document from elsewhere
MaxCategoryOps == 3     \* the category operations of a session
MaxNewdefs == 2         \* the definitions of one call of updateCategories
MaxFutureVersions == 1  \* the schema versions later than SCHEMA_VERSION a catalog may have
MaxSends == 1           \* the send calls made through a SafeMidiOutput
MaxBufferLen == 3       \* the messages of one block that is sent

(***************************************************************************)
(* Program constants.                                                      *)
(***************************************************************************)
maxNumberMessagesPerPatch_ == 14
\* PatchListType
NORMAL_LIST == 0
SYNTH_BANK == 1
USER_BANK == 2
IMPORT_LIST == 3
SCHEMA_VERSION == 19
\* the bit indices getNextBitindex hands out are below this
MaxCategories == 63

BankNumbers == 0..(MaxBanks - 1)
\* the bank vectors a caller passes: a selection of the banks, in ascending order
BankVectors == {v \in UNION {[1..n -> BankNumbers] : n \in 0..MaxBanks} :
                    \A i, j \in DOMAIN v : i < j => v[i] < v[j]}

\* BankDownloadMethod, without UNKNOWN (which only logs an error)
Methods == {"STREAMING", "HANDSHAKES", "BANKS", "PROGRAM_BUFFERS", "EDIT_BUFFERS"}

\* What the device can send: a message that continues a dump, a message that
\* completes one, and a message the adapter does not recognise.
MessageKinds == {"part", "end", "other"}

VARIABLES
    \* ---- MidiController (the registry the Librarian subscribes to)
    messageHandlers_,           \* set of [handle, bankIdx, bankNo]: full-message handlers
    partialHandlers_,           \* set of [handle, bankIdx, bankNo]: partial-SysEx handlers
    nextHandle,                 \* MidiController::makeOneHandle: the next fresh Uuid
    \* ---- Librarian
    handles_,                   \* std::stack<HandlerHandle>, top is the last element
    downloadNumber_,
    startDownloadNumber_,
    endDownloadNumber_,
    expectedDownloadNumber_,
    currentDownload_,           \* std::vector<MidiMessage>
    currentProgramDump_,
    currentEditBuffer_,
    currentDownloadBank_,
    downloadBankNumber_,
    currentDownloadedPatches_,  \* std::vector<PatchHolder>
    onFinished_,                \* "none" | "caller" | "nextBank"
    bankNo_,                    \* the bank vector captured by nextBankHandler_
    \* ---- the synth and its adapter
    method,                     \* determineBankDownloadMethod(synth)
    bankSize,                   \* SynthBank::numberOfPatchesInBank
    progressTotal,              \* StreamLoadCapability::numberOfStreamMessagesExpected
    streamAdvance,              \* StreamLoadCapability::shouldStreamAdvance
    hsState,                    \* HandshakeLoadingCapability::ProtocolState
    timestampOfLastMessage,     \* the shared timestamp of the bank request's two lambdas
    \* ---- ProgressHandler
    abortFlag,                  \* what shouldAbort() returns
    abortObserved,              \* shouldAbort() has been called and returned true
    nSuccess,                   \* calls of onSuccess()
    nCancel,                    \* calls of onCancel()
    lastProgress,               \* <<numerator, denominator>> of the last setProgressPercentage
    \* ---- the caller and the device
    started,                    \* startDownloadingAllPatches has been called
    finishedCalls,              \* calls of the caller's onFinished
    finishedPatches,            \* what the last call delivered
    banksCompleted,             \* single-bank downloads that reached their success branch
    earlySuccess,               \* onSuccess() was called while banks were still to come
    successAfterAbort,          \* onSuccess() was called after shouldAbort() had answered true
    hsDeliveredIn,              \* the protocol states in which the handshake lambda delivered patches
    leakedAtCompletion,         \* a completion callback ran with a subscription of its download registered
    requestsSent,               \* request-patch commands sent (startDownloadNextPatch)
    dumpsAnswered,              \* requests the device has answered with a complete program dump
    deviceOk                    \* all the device ever sent were the messages of one complete
                                \* program dump for each request-patch command

libVars == <<messageHandlers_, partialHandlers_, nextHandle, handles_, downloadNumber_,
             startDownloadNumber_, endDownloadNumber_, expectedDownloadNumber_,
             currentDownload_, currentProgramDump_, currentEditBuffer_,
             currentDownloadBank_, downloadBankNumber_, currentDownloadedPatches_,
             onFinished_, bankNo_, method, bankSize, progressTotal, streamAdvance,
             hsState, timestampOfLastMessage, abortFlag, abortObserved, nSuccess, nCancel, lastProgress,
             started, finishedCalls, finishedPatches, banksCompleted, earlySuccess,
             successAfterAbort, hsDeliveredIn,
             leakedAtCompletion, requestsSent, dumpsAnswered, deviceOk>>

VARIABLES
    \* ---- MidiController::handleIncomingMidiMessage, one pass per MIDI input thread
    passPc,                     \* "idle" | "calling": the thread is in the loop over newhandlers
    newhandlers,                \* the copy of the handler list the pass iterates, what is left of it
    registeredAtBegin,          \* the handles registered when the pass began
    invoked,                    \* how often the pass has called each handle's callback
    \* ---- time and the timeout a subscriber asked for
    now,                        \* the clock, in milliseconds
    timeoutMs,                  \* handle -> the timeoutMs given to addMessageHandler (-1: none)
    lastActivityMs,             \* handle -> when a message was last delivered to it
    timeoutsDelivered           \* handle -> timeout sentinels delivered to it

dispVars == <<passPc, newhandlers, registeredAtBegin, invoked, now, timeoutMs,
              lastActivityMs, timeoutsDelivered>>

VARIABLES
    \* ---- one MidiCoroutine and the two threads that resume it
    incomingMessages_,          \* promise_type::incomingMessages_, the queue of arrivals
    arrived,                    \* messages that have arrived at the coroutine's handler
    coPc,                       \* thread -> where it is
    front,                      \* thread -> the message it read with incomingMessages_.front()
    awaited,                    \* co_awaits of the task body that have returned
    coDone,                     \* handle.done(): the body ran to its co_return
    returned                    \* the values the awaits returned, with the thread that got them

coVars == <<incomingMessages_, arrived, coPc, front, awaited, coDone, returned>>

VARIABLES
    \* ---- MidiController: the MIDI outputs
    outputsPresent,             \* MidiOutput::getAvailableDevices(): the endpoints plugged in
    outputsOpen_,               \* identifier -> the MidiOutput object opened for it (0: no entry)
    safeOutputs_,               \* identifier -> the SafeMidiOutput of the controller
                                \* (its midiOut_; -1: no entry, 0: nullptr)
    devicesOpened,              \* MidiOutput objects created so far
    devicesAlive,               \* the MidiOutput objects that have not been destroyed
    heldOutputs,                \* the SafeMidiOutput handles callers hold: [identifier, midiOut_]
    reachedClosedDevice         \* a message was sent through a destroyed MidiOutput object

outVars == <<outputsPresent, outputsOpen_, safeOutputs_, devicesOpened, devicesAlive,
             heldOutputs, reachedClosedDevice>>

VARIABLES
    \* ---- FindSynthOnMidiNetwork::detectSynth
    respondingSynth,            \* the synths that answer the detect message: where they are wired
    detectPc,                   \* where detectSynth is
    outputI,                    \* the output asyncDetectSynth is probing (1-based)
    locationsFound,             \* asyncDetectSynth's locationsFound
    detectQueue,                \* the coroutine's incomingMessages_
    detectDone,                 \* the coroutine ran to its co_return
    detectResult,               \* what detectSynth returned
    replyInFlight,              \* replies of the synth on their way to the machine
    replied,                    \* a reply of the synth has arrived
    detectHandler               \* the coroutine's handler is registered

discVars == <<respondingSynth, detectPc, outputI, locationsFound, detectQueue, detectDone,
              detectResult, replyInFlight, replied, detectHandler>>

(* PatchDatabase: the tables of the catalog, the fingerprint algorithm of   *)
(* the synths, and what the last operation has to answer for.              *)
VARIABLES
    patchTable,
    lists,
    patch_in_list,
    fingerprintVersion,
    catalogOps,
    lastOperation,
    bankReferenced,
    mergeInput,
    mergesDone,
    countsAfterOnce,
    reindexCall
dbVars == <<patchTable, lists, patch_in_list, fingerprintVersion, catalogOps, lastOperation,
            bankReferenced, mergeInput, mergesDone, countsAfterOnce, reindexCall>>

\* the variables of the later parts of the model

(* SynthBank: the list of the bank, its dirty positions and the last call made *)
VARIABLES
    patches_,
    dirtyPositions_,
    bankCall,
    bankOps,
    bankTrace
bankVars == <<patches_, dirtyPositions_, bankCall, bankOps, bankTrace>>

(* PatchInterchangeFormat: the holders saved, the document, the holders loaded *)
VARIABLES
    savedPatches,
    document,
    loadedPatches,
    pifPc
pifVars == <<savedPatches, document, loadedPatches, pifPc>>

(* PatchDatabase: the categories table and what the category operations returned *)
VARIABLES
    categoriesTable,
    maxbitindex,
    categorizer,
    categoryOps
catVars == <<categoriesTable, maxbitindex, categorizer, categoryOps>>

(* PatchDatabase: the catalog file, its copies and the open in progress *)
VARIABLES
    catalogFile,
    fileAtOpen,
    beforeMigration,
    mode_,
    currentVersion,
    hasBackuped,
    openPc,
    thrown
schemaVars == <<catalogFile, fileAtOpen, beforeMigration, mode_, currentVersion, hasBackuped, openPc, thrown>>

(* SafeMidiOutput: its output, what reached it, the debounced action and the last send *)
VARIABLES
    midiOut_,
    wire,
    debouncedAction,
    sendCall,
    sends
wireVars == <<midiOut_, wire, debouncedAction, sendCall, sends>>

(* Librarian::sendBankToSynth, the per-patch path: the call, the loop over  *)
(* the patches of the bank, what reached the synth, the abort flag of the   *)
(* progress handler and the calls of the finished handler.                 *)
VARIABLES
    sendBankCall,
    sendBankPc,
    sendBankI,
    sentToSynth,
    abortRequested,
    finishedHandlerCalls
sendBankVars == <<sendBankCall, sendBankPc, sendBankI, sentToSynth, abortRequested, finishedHandlerCalls>>

extVars == <<outVars, discVars, dbVars, bankVars, pifVars, catVars, schemaVars, wireVars, sendBankVars>>
extButOut == <<discVars, dbVars, bankVars, pifVars, catVars, schemaVars, wireVars, sendBankVars>>
extButDisc == <<outVars, dbVars, bankVars, pifVars, catVars, schemaVars, wireVars, sendBankVars>>
extButCatalog == <<outVars, discVars, bankVars, pifVars, catVars, schemaVars, wireVars, sendBankVars>>
extButSynthBank == <<outVars, discVars, dbVars, pifVars, catVars, schemaVars, wireVars, sendBankVars>>
extButInterchange == <<outVars, discVars, dbVars, bankVars, catVars, schemaVars, wireVars, sendBankVars>>
extButCategories == <<outVars, discVars, dbVars, bankVars, pifVars, schemaVars, wireVars, sendBankVars>>
extButSchema == <<outVars, discVars, dbVars, bankVars, pifVars, catVars, wireVars, sendBankVars>>
extButWire == <<outVars, discVars, dbVars, bankVars, pifVars, catVars, schemaVars, sendBankVars>>
extButBankSend == <<outVars, discVars, dbVars, bankVars, pifVars, catVars, schemaVars, wireVars>>

vars == <<libVars, dispVars, coVars, extVars>>

(***************************************************************************)
(* The handlers call each other (a finished bank starts the next one from  *)
(* inside the callback), so they are written as functions on a record of   *)
(* the state; an action commits the record its handler returns.            *)
(***************************************************************************)
World ==
    [messageHandlers_ |-> messageHandlers_, partialHandlers_ |-> partialHandlers_,
     nextHandle |-> nextHandle, handles_ |-> handles_,
     downloadNumber_ |-> downloadNumber_, startDownloadNumber_ |-> startDownloadNumber_,
     endDownloadNumber_ |-> endDownloadNumber_,
     expectedDownloadNumber_ |-> expectedDownloadNumber_,
     currentDownload_ |-> currentDownload_, currentProgramDump_ |-> currentProgramDump_,
     currentEditBuffer_ |-> currentEditBuffer_, currentDownloadBank_ |-> currentDownloadBank_,
     downloadBankNumber_ |-> downloadBankNumber_,
     currentDownloadedPatches_ |-> currentDownloadedPatches_,
     onFinished_ |-> onFinished_, bankNo_ |-> bankNo_, method |-> method,
     bankSize |-> bankSize, progressTotal |-> progressTotal,
     streamAdvance |-> streamAdvance, hsState |-> hsState,
     timestampOfLastMessage |-> timestampOfLastMessage, abortFlag |-> abortFlag,
     abortObserved |-> abortObserved, nSuccess |-> nSuccess, nCancel |-> nCancel,
     lastProgress |-> lastProgress, started |-> started, finishedCalls |-> finishedCalls,
     finishedPatches |-> finishedPatches, banksCompleted |-> banksCompleted,
     earlySuccess |-> earlySuccess, successAfterAbort |-> successAfterAbort,
     hsDeliveredIn |-> hsDeliveredIn, leakedAtCompletion |-> leakedAtCompletion,
     requestsSent |-> requestsSent, dumpsAnswered |-> dumpsAnswered,
     deviceOk |-> deviceOk]

Commit(w) ==
    /\ messageHandlers_' = w.messageHandlers_
    /\ partialHandlers_' = w.partialHandlers_
    /\ nextHandle' = w.nextHandle
    /\ handles_' = w.handles_
    /\ downloadNumber_' = w.downloadNumber_
    /\ startDownloadNumber_' = w.startDownloadNumber_
    /\ endDownloadNumber_' = w.endDownloadNumber_
    /\ expectedDownloadNumber_' = w.expectedDownloadNumber_
    /\ currentDownload_' = w.currentDownload_
    /\ currentProgramDump_' = w.currentProgramDump_
    /\ currentEditBuffer_' = w.currentEditBuffer_
    /\ currentDownloadBank_' = w.currentDownloadBank_
    /\ downloadBankNumber_' = w.downloadBankNumber_
    /\ currentDownloadedPatches_' = w.currentDownloadedPatches_
    /\ onFinished_' = w.onFinished_
    /\ bankNo_' = w.bankNo_
    /\ method' = w.method
    /\ bankSize' = w.bankSize
    /\ progressTotal' = w.progressTotal
    /\ streamAdvance' = w.streamAdvance
    /\ hsState' = w.hsState
    /\ timestampOfLastMessage' = w.timestampOfLastMessage
    /\ abortFlag' = w.abortFlag
    /\ abortObserved' = w.abortObserved
    /\ nSuccess' = w.nSuccess
    /\ nCancel' = w.nCancel
    /\ lastProgress' = w.lastProgress
    /\ started' = w.started
    /\ finishedCalls' = w.finishedCalls
    /\ finishedPatches' = w.finishedPatches
    /\ banksCompleted' = w.banksCompleted
    /\ earlySuccess' = w.earlySuccess
    /\ successAfterAbort' = w.successAfterAbort
    /\ hsDeliveredIn' = w.hsDeliveredIn
    /\ leakedAtCompletion' = w.leakedAtCompletion
    /\ requestsSent' = w.requestsSent
    /\ dumpsAnswered' = w.dumpsAnswered
    /\ deviceOk' = w.deviceOk

(***************************************************************************)
(* MidiController: the registry.                                           *)
(***************************************************************************)
\* MidiController::addMessageHandler
\* (bankIdx, bankNo: the download the lambda belongs to and the bank it captured)
addMessageHandler(w, handle, bankIdx, bankNo) ==
    [w EXCEPT !.messageHandlers_ =
        @ \cup {[handle |-> handle, bankIdx |-> bankIdx, bankNo |-> bankNo]}]

\* MidiController::removeMessageHandler: erases the handle from messageHandlers_
\* only; a handle that is not there is reported (jassertfalse) and left alone.
removeMessageHandler(w, handle) ==
    [w EXCEPT !.messageHandlers_ = {e \in @ : e.handle # handle}]

\* MidiController::addPartialMessageHandler
addPartialMessageHandler(w, handle, bankIdx, bankNo) ==
    [w EXCEPT !.partialHandlers_ =
        @ \cup {[handle |-> handle, bankIdx |-> bankIdx, bankNo |-> bankNo]}]

\* MidiController::makeOneHandle: a fresh Uuid
makeOneHandle(w) == w.nextHandle

TookHandle(w) == [w EXCEPT !.nextHandle = @ + 1]

(***************************************************************************)
(* Librarian                                                               *)
(***************************************************************************)
\* Librarian::clearHandlers: pops every handle and removes it as a message handler
RECURSIVE clearHandlers(_)
clearHandlers(w) ==
    IF w.handles_ = <<>> THEN w
    ELSE LET handle == w.handles_[Len(w.handles_)]
             popped == [w EXCEPT !.handles_ = SubSeq(@, 1, Len(@) - 1)]
         IN clearHandlers(removeMessageHandler(popped, handle))

PushHandle(w, handle) == [w EXCEPT !.handles_ = Append(@, handle)]

\* SynthBank::startIndexInBank, for a synth with HasBanksCapability
startIndexInBank(w, bank) == bank * w.bankSize

\* SynthBank::numberOfPatchesInBank
numberOfPatchesInBank(w, bank) == w.bankSize

\* Librarian::startDownloadNextPatch: one request-patch command for downloadNumber_
startDownloadNextPatch(w) ==
    [w EXCEPT !.currentProgramDump_ = <<>>, !.requestsSent = @ + 1]

\* Librarian::startDownloadNextEditBuffer: program change and edit buffer request
startDownloadNextEditBuffer(w) ==
    [w EXCEPT !.currentEditBuffer_ = <<>>, !.requestsSent = @ + 1]

(***************************************************************************)
(* ProgressHandler and the caller's callback, with what they observe.      *)
(***************************************************************************)
\* a subscription registered by download number idx is still in a registry
Leak(w, idx) == \E e \in w.messageHandlers_ \cup w.partialHandlers_ : e.bankIdx = idx

TotalBanks(w) == IF w.bankNo_ = <<>> THEN 1 ELSE Len(w.bankNo_)

\* ProgressHandler::shouldAbort
shouldAbort(w) == w.abortFlag
Polled(w) == [w EXCEPT !.abortObserved = @ \/ w.abortFlag]

\* ProgressHandler::setProgressPercentage(num / (double) den)
setProgressPercentage(w, num, den) == [w EXCEPT !.lastProgress = <<num, den>>]

\* ProgressHandler::onSuccess, called by the download number idx
onSuccess(w, idx) ==
    [w EXCEPT !.nSuccess = @ + 1,
              !.earlySuccess = @ \/ (w.banksCompleted < TotalBanks(w)),
              !.successAfterAbort = @ \/ w.abortObserved,
              !.leakedAtCompletion = @ \/ Leak(w, idx)]

\* ProgressHandler::onCancel, called by the download number idx
onCancel(w, idx) ==
    [w EXCEPT !.nCancel = @ + 1, !.leakedAtCompletion = @ \/ Leak(w, idx)]

\* the TFinishedHandler the caller passed
callerOnFinished(w, patches) ==
    [w EXCEPT !.finishedCalls = @ + 1, !.finishedPatches = patches]

(***************************************************************************)
(* Synth::loadSysex and the patch holders made of its result.              *)
(***************************************************************************)
\* ProgramDumpCabability::isMessagePartOfProgramDump, EditBufferCapability::
\* isMessagePartOfEditBuffer, StreamLoadCapability::isMessagePartOfStream,
\* BankDumpCapability::isBankDump: the adapter recognises the message
isPartOfDump(m) == m \in {"part", "end"}

\* isSingleProgramDump, isEditBufferDump, isStreamComplete, isBankDumpFinished:
\* the messages collected so far end with the message that completes the dump
isDumpComplete(msgs) == msgs # <<>> /\ msgs[Len(msgs)] = "end"

\* the sliding window of Synth::loadSysex: at most maxNumberMessagesPerPatch_ messages
SlidingWindow(window) ==
    IF Len(window) > maxNumberMessagesPerPatch_
    THEN SubSeq(window, Len(window) - maxNumberMessagesPerPatch_ + 1, Len(window))
    ELSE window

\* Synth::loadSysex, the program dump (and edit buffer) pass: the number of
\* patches found in the messages
RECURSIVE loadSysexDumps(_, _, _)
loadSysexDumps(msgs, window, found) ==
    IF msgs = <<>> THEN found
    ELSE IF isPartOfDump(Head(msgs))
         THEN LET slidingWindow == SlidingWindow(Append(window, Head(msgs)))
              IN IF isDumpComplete(slidingWindow)
                 THEN loadSysexDumps(Tail(msgs), <<>>, found + 1)
                 ELSE loadSysexDumps(Tail(msgs), slidingWindow, found)
         ELSE loadSysexDumps(Tail(msgs), window, found)

\* Synth::loadSysex: the number of patches in the collected messages.  A stream
\* and a handshake carry one patch per collected message, a finished bank dump
\* carries the patches of the bank.
loadSysex(w, msgs) ==
    CASE w.method \in {"PROGRAM_BUFFERS", "EDIT_BUFFERS"} -> loadSysexDumps(msgs, <<>>, 0)
      [] w.method = "BANKS" -> loadSysexDumps(msgs, <<>>, 0) * w.bankSize
      [] OTHER -> Len(msgs)

\* Librarian::createPatchHoldersFromPatchList, via tagPatchesWithImportFromSynth
tagPatchesWithImportFromSynth(n, bankNo) ==
    [i \in 1..n |-> [bank |-> bankNo, program |-> i - 1, bulk |-> FALSE]]

\* Librarian::tagPatchesWithMultiBulkImport
tagPatchesWithMultiBulkImport(patches) ==
    [i \in 1..Len(patches) |-> [patches[i] EXCEPT !.bulk = TRUE]]

\* ProtocolState: isFinished(), wasSuccessful() and progress(), which the adapter
\* keeps in [0, 1]
HsStates == {s \in [isFinished : BOOLEAN, wasSuccessful : BOOLEAN, progress : 0..1] :
                 s.progress = 1 <=> s.isFinished}

\* HandshakeLoadingCapability::createStateObject
createStateObject == [isFinished |-> FALSE, wasSuccessful |-> FALSE, progress |-> 0]

(***************************************************************************)
(* Librarian::startDownloadingAllPatches, one bank                         *)
(***************************************************************************)
startDownloadingBank(w, bankNo, onFinished) ==
    LET w0 == [clearHandlers(w) EXCEPT !.downloadNumber_ = 0,
                                       !.currentDownload_ = <<>>,
                                       !.onFinished_ = onFinished]
        handle == makeOneHandle(w0)
        idx == w0.downloadBankNumber_
        w1 == PushHandle(addMessageHandler(TookHandle(w0), handle, idx, bankNo), handle)
    IN CASE w.method = "STREAMING" ->
              LET w2 == [w1 EXCEPT !.currentDownloadBank_ = bankNo,
                                   !.expectedDownloadNumber_ = numberOfPatchesInBank(w, bankNo)]
              IN IF w2.expectedDownloadNumber_ > 0
                 THEN [w2 EXCEPT !.requestsSent = @ + 1]
                 ELSE w2
         [] w.method = "HANDSHAKES" -> [w1 EXCEPT !.hsState = createStateObject]
         [] w.method = "BANKS" ->
              LET partialHandle == makeOneHandle(w1)
                  w2 == [w1 EXCEPT !.expectedDownloadNumber_ = numberOfPatchesInBank(w, bankNo)]
                  w3 == addPartialMessageHandler(TookHandle(w2), partialHandle, idx, bankNo)
              IN [PushHandle(w3, partialHandle) EXCEPT !.currentDownload_ = <<>>,
                                                       !.timestampOfLastMessage = "start",
                                                       !.requestsSent = @ + 1]
         [] w.method = "PROGRAM_BUFFERS" ->
              startDownloadNextPatch(
                  [w1 EXCEPT !.downloadNumber_ = startIndexInBank(w, bankNo),
                             !.startDownloadNumber_ = startIndexInBank(w, bankNo),
                             !.endDownloadNumber_ =
                                 startIndexInBank(w, bankNo) + numberOfPatchesInBank(w, bankNo)])
         [] w.method = "EDIT_BUFFERS" ->
              startDownloadNextEditBuffer(
                  [w1 EXCEPT !.downloadNumber_ = startIndexInBank(w, bankNo),
                             !.startDownloadNumber_ = startIndexInBank(w, bankNo),
                             !.endDownloadNumber_ =
                                 startIndexInBank(w, bankNo) + numberOfPatchesInBank(w, bankNo)])

\* nextBankHandler_: the lambda of the multi-bank startDownloadingAllPatches
nextBankHandler(w, patchesLoaded) ==
    LET w1 == [w EXCEPT !.currentDownloadedPatches_ = @ \o patchesLoaded,
                        !.downloadBankNumber_ = @ + 1]
    IN IF w1.downloadBankNumber_ = Len(w.bankNo_)
       THEN LET w2 == IF Len(w.bankNo_) > 1
                      THEN [w1 EXCEPT !.currentDownloadedPatches_ =
                                          tagPatchesWithMultiBulkImport(@)]
                      ELSE w1
            IN callerOnFinished(w2, w2.currentDownloadedPatches_)
       ELSE IF ~shouldAbort(w1)
            THEN startDownloadingBank(Polled(w1), w.bankNo_[w1.downloadBankNumber_ + 1], "nextBank")
            ELSE Polled(w1)

\* onFinished_(patches), as called by the download number idx
onFinished(w, patches, idx) ==
    LET w1 == [w EXCEPT !.banksCompleted = @ + 1,
                        !.leakedAtCompletion = @ \/ Leak(w, idx)]
    IN IF w.onFinished_ = "nextBank"
       THEN nextBankHandler(w1, patches)
       ELSE callerOnFinished(w1, patches)

(***************************************************************************)
(* The message callbacks.  e is the registry entry of the lambda: e.bankNo *)
(* is the bank it captured.                                                *)
(***************************************************************************)
\* Librarian::handleNextStreamPart
handleNextStreamPart(w, e, message) ==
    IF ~isPartOfDump(message) THEN w
    ELSE LET w1 == [w EXCEPT !.currentDownload_ = Append(@, message)]
             w2 == IF w.progressTotal > 0
                   THEN setProgressPercentage(w1, Len(w1.currentDownload_), w.progressTotal)
                   ELSE w1
         IN IF isDumpComplete(w2.currentDownload_)
            THEN LET w3 == clearHandlers(w2)
                     result == loadSysex(w3, w3.currentDownload_)
                 IN onSuccess(onFinished(w3, tagPatchesWithImportFromSynth(result, w3.currentDownloadBank_),
                                         e.bankIdx), e.bankIdx)
            ELSE IF shouldAbort(w2)
            THEN onCancel(clearHandlers(Polled(w2)), e.bankIdx)
            ELSE IF w.streamAdvance
            THEN LET w3 == [w2 EXCEPT !.downloadNumber_ = @ + 1, !.requestsSent = @ + 1]
                 IN IF w.progressTotal = -1
                    THEN setProgressPercentage(w3, w3.downloadNumber_, w3.expectedDownloadNumber_)
                    ELSE w3
            ELSE w2

\* the lambda of the HANDSHAKES case; (isNext, state) is what
\* HandshakeLoadingCapability::isNextMessage answers and leaves in the state object
handleHandshake(w, e, protocolMessage, isNext, state) ==
    LET w1 == IF isNext THEN [w EXCEPT !.currentDownload_ = Append(@, protocolMessage)] ELSE w
        w2 == setProgressPercentage([w1 EXCEPT !.hsState = state], state.progress, 1)
    IN IF state.isFinished \/ shouldAbort(w2)
       THEN LET w3 == clearHandlers(IF state.isFinished THEN w2 ELSE Polled(w2))
            IN IF state.wasSuccessful
               THEN LET patches == loadSysex(w3, w3.currentDownload_)
                        w4 == [w3 EXCEPT !.hsDeliveredIn = @ \cup {state}]
                    IN onSuccess(onFinished(w4, tagPatchesWithImportFromSynth(patches, e.bankNo),
                                            e.bankIdx), e.bankIdx)
               ELSE onCancel(w3, e.bankIdx)
       ELSE w2

\* Librarian::handleNextBankDump, after the lambda updated the timestamp
handleNextBankDump(w, e, bankDump) ==
    LET w0 == [w EXCEPT !.timestampOfLastMessage = "message"]
    IN IF ~isPartOfDump(bankDump) THEN w0
       ELSE LET w1 == [w0 EXCEPT !.currentDownload_ = Append(@, bankDump)]
            IN IF isDumpComplete(w1.currentDownload_)
               THEN LET w2 == clearHandlers(w1)
                        patches == loadSysex(w2, w2.currentDownload_)
                    IN onSuccess(onFinished(w2, tagPatchesWithImportFromSynth(patches, e.bankNo),
                                            e.bankIdx), e.bankIdx)
               ELSE IF shouldAbort(w1)
               THEN onCancel(clearHandlers(Polled(w1)), e.bankIdx)
               ELSE setProgressPercentage(w1, Len(w1.currentDownload_), w1.expectedDownloadNumber_)

\* variant: the loop stops one program later
wasLastProgramLate(w) == w.downloadNumber_ >= w.endDownloadNumber_

\* "Finished?" of handleNextProgramBuffer and handleNextEditBuffer
wasLastProgram(w) == w.downloadNumber_ >= w.endDownloadNumber_ - 1

\* Librarian::handleNextProgramBuffer
handleNextProgramBuffer(w, e, editBuffer) ==
    IF ~isPartOfDump(editBuffer) THEN w
    ELSE LET w1 == [w EXCEPT !.currentProgramDump_ = Append(@, editBuffer)]
         IN IF ~isDumpComplete(w1.currentProgramDump_) THEN w1
            ELSE LET w2 == [w1 EXCEPT !.currentDownload_ = @ \o w1.currentProgramDump_]
                 IN IF wasLastProgram(w2)
                    THEN LET w3 == clearHandlers(w2)
                             patches == loadSysex(w3, w3.currentDownload_)
                         IN onSuccess(onFinished(w3, tagPatchesWithImportFromSynth(patches, e.bankNo),
                                                 e.bankIdx), e.bankIdx)
                    ELSE IF shouldAbort(w2)
                    THEN onCancel(clearHandlers(Polled(w2)), e.bankIdx)
                    ELSE LET w3 == startDownloadNextPatch([w2 EXCEPT !.downloadNumber_ = @ + 1])
                         IN setProgressPercentage(w3, w3.downloadNumber_ - w3.startDownloadNumber_,
                                                  w3.endDownloadNumber_ - w3.startDownloadNumber_)

\* Librarian::handleNextEditBuffer
handleNextEditBuffer(w, e, editBuffer) ==
    IF ~isPartOfDump(editBuffer) THEN w
    ELSE LET w1 == [w EXCEPT !.currentEditBuffer_ = Append(@, editBuffer)]
         IN IF ~isDumpComplete(w1.currentEditBuffer_) THEN w1
            ELSE LET w2 == [w1 EXCEPT !.currentDownload_ = @ \o w1.currentEditBuffer_]
                 IN IF wasLastProgram(w2)
                    THEN LET w3 == clearHandlers(w2)
                             patches == loadSysex(w3, w3.currentDownload_)
                         IN onSuccess(onFinished(w3, tagPatchesWithImportFromSynth(patches, e.bankNo),
                                                 e.bankIdx), e.bankIdx)
                    ELSE IF shouldAbort(w2)
                    THEN onCancel(clearHandlers(Polled(w2)), e.bankIdx)
                    ELSE LET w3 == startDownloadNextEditBuffer([w2 EXCEPT !.downloadNumber_ = @ + 1])
                         IN setProgressPercentage(w3, w3.downloadNumber_ - w3.startDownloadNumber_,
                                                  w3.endDownloadNumber_ - w3.startDownloadNumber_)

\* the MidiCallback registered under entry e
MidiCallback(w, e, message, isNext, state) ==
    CASE w.method = "STREAMING" -> handleNextStreamPart(w, e, message)
      [] w.method = "HANDSHAKES" -> handleHandshake(w, e, message, isNext, state)
      [] w.method = "BANKS" -> handleNextBankDump(w, e, message)
      [] w.method = "PROGRAM_BUFFERS" -> handleNextProgramBuffer(w, e, message)
      [] w.method = "EDIT_BUFFERS" -> handleNextEditBuffer(w, e, message)

\* MidiController::handleIncomingMidiMessage: the handlers registered when the
\* message arrives (the copy newhandlers) are called one after the other in map order
RECURSIVE callHandlers(_, _, _, _, _)
callHandlers(w, copied, message, isNext, state) ==
    IF copied = {} THEN w
    ELSE LET e == CHOOSE x \in copied : \A y \in copied : x.handle <= y.handle
         IN callHandlers(MidiCallback(w, e, message, isNext, state),
                         copied \ {e}, message, isNext, state)

handleIncomingMidiMessage(w, message, isNext, state) ==
    callHandlers(w, w.messageHandlers_, message, isNext, state)

\* MidiController::handlePartialSysexMessage: the partial handler of the bank
\* request only notes the time
handlePartialSysexMessage(w) ==
    IF w.partialHandlers_ = {} THEN w
    ELSE [w EXCEPT !.timestampOfLastMessage = "partial"]

(***************************************************************************)
(* The actions of SpecLibrarian                                            *)
(***************************************************************************)
\* MidiController(): no handler is registered
InitMidiController ==
    /\ messageHandlers_ = {} /\ nextHandle = 1

InitLibrarianWith(m, size, total, advance) ==
    /\ partialHandlers_ = {}
    /\ handles_ = <<>>
    /\ downloadNumber_ = 0 /\ startDownloadNumber_ = 0 /\ endDownloadNumber_ = 0
    /\ expectedDownloadNumber_ = 0
    /\ currentDownload_ = <<>> /\ currentProgramDump_ = <<>> /\ currentEditBuffer_ = <<>>
    /\ currentDownloadBank_ = 0 /\ downloadBankNumber_ = 0
    /\ currentDownloadedPatches_ = <<>>
    /\ onFinished_ = "none" /\ bankNo_ = <<>>
    /\ method = m /\ bankSize = size /\ progressTotal = total /\ streamAdvance = advance
    /\ hsState = createStateObject
    /\ timestampOfLastMessage = "start"
    /\ abortFlag = FALSE /\ abortObserved = FALSE
    /\ nSuccess = 0 /\ nCancel = 0 /\ lastProgress = <<0, 1>>
    /\ started = FALSE /\ finishedCalls = 0 /\ finishedPatches = <<>>
    /\ banksCompleted = 0 /\ earlySuccess = FALSE /\ leakedAtCompletion = FALSE
    /\ successAfterAbort = FALSE /\ hsDeliveredIn = {}
    /\ requestsSent = 0 /\ dumpsAnswered = 0 /\ deviceOk = TRUE

\* startDownloadingAllPatches(midiOutput, synth, MidiBankNumber bankNo, ...)
StartDownloadingBank(bankNo) ==
    /\ ~started
    /\ UNCHANGED <<dispVars, coVars, extVars>>
    /\ Commit(startDownloadingBank([World EXCEPT !.started = TRUE], bankNo, "caller"))

\* startDownloadingAllPatches(midiOutput, synth, std::vector<MidiBankNumber> bankNo, ...)
StartDownloadingAllPatches(bankNo) ==
    /\ ~started
    /\ UNCHANGED <<dispVars, coVars, extVars>>
    /\ LET w == [World EXCEPT !.started = TRUE, !.downloadBankNumber_ = 0]
       IN IF bankNo # <<>>
          THEN Commit(startDownloadingBank(
                   [w EXCEPT !.currentDownloadedPatches_ = <<>>, !.bankNo_ = bankNo],
                   bankNo[1], "nextBank"))
          ELSE Commit(w)

\* the user cancels: ProgressHandler::shouldAbort answers true from now on
UserAborts ==
    /\ started /\ ~abortFlag
    /\ abortFlag' = TRUE
    /\ UNCHANGED <<dispVars, coVars, extVars>>
    /\ UNCHANGED <<messageHandlers_, partialHandlers_, nextHandle, handles_, downloadNumber_,
             startDownloadNumber_, endDownloadNumber_, expectedDownloadNumber_,
             currentDownload_, currentProgramDump_, currentEditBuffer_,
             currentDownloadBank_, downloadBankNumber_, currentDownloadedPatches_,
             onFinished_, bankNo_, method, bankSize, progressTotal, streamAdvance,
             hsState, timestampOfLastMessage, abortObserved, nSuccess, nCancel, lastProgress,
             started, finishedCalls, finishedPatches, banksCompleted, earlySuccess,
             successAfterAbort, hsDeliveredIn,
             leakedAtCompletion, requestsSent, dumpsAnswered, deviceOk>>

\* the messages the running download has collected
Collected == Len(currentDownload_) + Len(currentProgramDump_) + Len(currentEditBuffer_)

\* a complete MIDI message arrives from the device
DeviceSendsMessage(message, isNext, state) ==
    /\ started /\ Collected < MaxMessages
    /\ UNCHANGED <<dispVars, coVars, extVars>>
    /\ method = "HANDSHAKES" \/ (isNext /\ state = hsState)
    /\ LET answersRequest == message # "other" /\ requestsSent > dumpsAnswered
           w == IF method = "PROGRAM_BUFFERS"
                THEN [World EXCEPT !.dumpsAnswered =
                                       IF deviceOk /\ answersRequest /\ message = "end"
                                       THEN @ + 1 ELSE @,
                                   !.deviceOk = @ /\ answersRequest]
                ELSE World
       IN Commit(handleIncomingMidiMessage(w, message, isNext, state))

\* a chunk of an incomplete SysEx message arrives from the device
DeviceSendsPartial ==
    /\ started
    /\ UNCHANGED <<dispVars, coVars, extVars>>
    /\ Commit(handlePartialSysexMessage(World))

(***************************************************************************)
(* MidiController::handleIncomingMidiMessage as the MIDI input threads run *)
(* it: a pass copies the handler list under the lock and then calls the    *)
(* copied callbacks one by one, outside the lock.  A callback, or another  *)
(* thread, may subscribe and unsubscribe meanwhile.                        *)
(***************************************************************************)
Threads == {"midiIn1", "midiIn2"}
Handles == 1..MaxHandles
TimeoutChoices == {-1, 1}

RegisteredHandles == {e.handle : e \in messageHandlers_}

RECURSIVE InMapOrder(_)
InMapOrder(hs) ==
    IF hs = {} THEN <<>>
    ELSE LET h == CHOOSE x \in hs : \A y \in hs : x <= y
         IN <<h>> \o InMapOrder(hs \ {h})

\* variant: the loop skips the callbacks unsubscribed since the copy was taken
HandlersToCallLive(copy, registered) == SelectSeq(copy, LAMBDA h : h \in registered)

\* the callbacks the loop "for (auto const &handler : newhandlers)" still has to
\* call: what is left of the copy, whatever the registry holds by now
HandlersToCall(copy, registered) == copy

\* addMessageHandler(handle, handler, timeoutMs) as declared; the definition
\* stores the callback under the handle and nothing else
Subscribe(timeout) ==
    LET handle == nextHandle
    IN /\ messageHandlers_' = addMessageHandler(World, handle, 0, 0).messageHandlers_
       /\ nextHandle' = nextHandle + 1
       /\ timeoutMs' = [timeoutMs EXCEPT ![handle] = timeout]
       /\ lastActivityMs' = [lastActivityMs EXCEPT ![handle] = now]

\* removeMessageHandler(handle): the entry is erased, and what it held with it
Unsubscribe(handle) ==
    /\ messageHandlers_' = removeMessageHandler(World, handle).messageHandlers_
    /\ timeoutMs' = [timeoutMs EXCEPT ![handle] = -1]
    /\ lastActivityMs' = [lastActivityMs EXCEPT ![handle] = 0]
    /\ UNCHANGED nextHandle

InitDispatchIdle ==
    /\ passPc = [t \in Threads |-> "idle"]
    /\ newhandlers = [t \in Threads |-> <<>>]
    /\ registeredAtBegin = [t \in Threads |-> {}]
    /\ invoked = [t \in Threads |-> [h \in Handles |-> 0]]
    /\ now = 0
    /\ timeoutMs = [h \in Handles |-> -1]
    /\ lastActivityMs = [h \in Handles |-> 0]
    /\ timeoutsDelivered = [h \in Handles |-> 0]

libRest == <<partialHandlers_, handles_, downloadNumber_,
             startDownloadNumber_, endDownloadNumber_, expectedDownloadNumber_,
             currentDownload_, currentProgramDump_, currentEditBuffer_,
             currentDownloadBank_, downloadBankNumber_, currentDownloadedPatches_,
             onFinished_, bankNo_, method, bankSize, progressTotal, streamAdvance,
             hsState, timestampOfLastMessage, abortFlag, abortObserved, nSuccess, nCancel,
             lastProgress, started, finishedCalls, finishedPatches, banksCompleted,
             earlySuccess, successAfterAbort, hsDeliveredIn,
             leakedAtCompletion, requestsSent, dumpsAnswered, deviceOk>>

\* some thread other than the dispatching ones subscribes a handler
AddMessageHandler(timeout) ==
    /\ nextHandle <= MaxHandles
    /\ Subscribe(timeout)
    /\ UNCHANGED <<libRest, passPc, newhandlers, registeredAtBegin, invoked, now,
                   timeoutsDelivered, coVars, extVars>>

\* some thread other than the dispatching ones unsubscribes a handler
RemoveMessageHandler(handle) ==
    /\ handle \in RegisteredHandles
    /\ Unsubscribe(handle)
    /\ UNCHANGED <<libRest, passPc, newhandlers, registeredAtBegin, invoked, now,
                   timeoutsDelivered, coVars, extVars>>

\* a message arrives on the input of thread t: the handler list is copied
BeginDispatch(t) ==
    /\ passPc[t] = "idle"
    /\ passPc' = [passPc EXCEPT ![t] = "calling"]
    /\ newhandlers' = [newhandlers EXCEPT ![t] = InMapOrder(RegisteredHandles)]
    /\ registeredAtBegin' = [registeredAtBegin EXCEPT ![t] = RegisteredHandles]
    /\ invoked' = [invoked EXCEPT ![t] = [h \in Handles |-> 0]]
    /\ UNCHANGED <<libVars, now, timeoutMs, lastActivityMs, timeoutsDelivered, coVars, extVars>>

\* the pass calls the next callback, which gets the message and then does
\* nothing more, unsubscribes a handler (itself or another), or subscribes one
CallHandler(t, effect) ==
    /\ passPc[t] = "calling"
    /\ HandlersToCall(newhandlers[t], RegisteredHandles) # <<>>
    /\ LET left == HandlersToCall(newhandlers[t], RegisteredHandles)
           handle == Head(left)
       IN /\ newhandlers' = [newhandlers EXCEPT ![t] = Tail(left)]
          /\ invoked' = [invoked EXCEPT ![t][handle] = @ + 1]
          /\ CASE effect[1] = "none" ->
                    /\ lastActivityMs' = [lastActivityMs EXCEPT ![handle] = now]
                    /\ UNCHANGED <<messageHandlers_, nextHandle, timeoutMs>>
               [] effect[1] = "remove" ->
                    /\ effect[2] \in RegisteredHandles
                    /\ messageHandlers_' = removeMessageHandler(World, effect[2]).messageHandlers_
                    /\ timeoutMs' = [timeoutMs EXCEPT ![effect[2]] = -1]
                    /\ lastActivityMs' = [lastActivityMs EXCEPT ![handle] = now, ![effect[2]] = 0]
                    /\ UNCHANGED nextHandle
               [] effect[1] = "add" ->
                    /\ nextHandle <= MaxHandles
                    /\ messageHandlers_' = addMessageHandler(World, nextHandle, 0, 0).messageHandlers_
                    /\ nextHandle' = nextHandle + 1
                    /\ timeoutMs' = [timeoutMs EXCEPT ![nextHandle] = effect[2]]
                    /\ lastActivityMs' = [lastActivityMs EXCEPT ![handle] = now, ![nextHandle] = now]
    /\ UNCHANGED <<libRest, passPc, registeredAtBegin, now, timeoutsDelivered, coVars, extVars>>

\* the loop over the copy is through
EndDispatch(t) ==
    /\ passPc[t] = "calling"
    /\ HandlersToCall(newhandlers[t], RegisteredHandles) = <<>>
    /\ passPc' = [passPc EXCEPT ![t] = "idle"]
    /\ newhandlers' = [newhandlers EXCEPT ![t] = <<>>]
    /\ registeredAtBegin' = [registeredAtBegin EXCEPT ![t] = {}]
    /\ invoked' = [invoked EXCEPT ![t] = [h \in Handles |-> 0]]
    /\ UNCHANGED <<libVars, now, timeoutMs, lastActivityMs, timeoutsDelivered, coVars, extVars>>

\* a millisecond passes.  MidiController::timerCallback, the only periodic code
\* of the controller, reconciles the device lists and touches no handler.
Tick ==
    /\ now < MaxTime
    /\ now' = now + 1
    /\ UNCHANGED <<libVars, passPc, newhandlers, registeredAtBegin, invoked, timeoutMs,
                   lastActivityMs, timeoutsDelivered, coVars, extVars>>

Effects == {<<"none", 0>>} \cup ({"remove"} \X Handles) \cup {<<"add", -1>>}

(***************************************************************************)
(* MidiController: the MIDI outputs.  getMidiOutput hands out shared       *)
(* SafeMidiOutput wrappers around the raw pointer to the MidiOutput the    *)
(* controller owns; timerCallback closes the outputs that were unplugged.  *)
(***************************************************************************)
Endpoints == 1..MaxOutputs
nullptr == 0
NoEntry == -1

InitOutputsIdle ==
    /\ outputsPresent = {}
    /\ outputsOpen_ = [id \in Endpoints |-> nullptr]
    /\ safeOutputs_ = [id \in Endpoints |-> NoEntry]
    /\ devicesOpened = 0 /\ devicesAlive = {}
    /\ heldOutputs = {} /\ reachedClosedDevice = FALSE

\* MidiController::enableMidiOutput: <<success, outputsOpen_, devicesOpened, devicesAlive>>.
\* opens tells whether juce::MidiOutput::openDevice returns a device.
enableMidiOutput(id, opens) ==
    IF outputsOpen_[id] # nullptr
    THEN <<TRUE, outputsOpen_, devicesOpened, devicesAlive>>
    ELSE IF id \in outputsPresent /\ opens
    THEN <<TRUE, [outputsOpen_ EXCEPT ![id] = devicesOpened + 1], devicesOpened + 1,
           devicesAlive \cup {devicesOpened + 1}>>
    ELSE <<FALSE, outputsOpen_, devicesOpened, devicesAlive>>

\* SafeMidiOutput::isValid of the wrapper the controller keeps for id
isValid(midiOut) == midiOut # nullptr /\ midiOut # NoEntry

\* MidiController::getMidiOutput, the caller keeping the shared_ptr it gets
GetMidiOutput(id, opens) ==
    /\ devicesOpened < MaxOpens
    /\ IF safeOutputs_[id] = NoEntry \/ ~isValid(safeOutputs_[id])
       THEN LET enabled == enableMidiOutput(id, opens)
            IN /\ outputsOpen_' = enabled[2]
               /\ devicesOpened' = enabled[3]
               /\ devicesAlive' = enabled[4]
               /\ safeOutputs_' = [safeOutputs_ EXCEPT ![id] =
                                       IF enabled[1] THEN enabled[2][id] ELSE nullptr]
       ELSE UNCHANGED <<outputsOpen_, devicesOpened, devicesAlive, safeOutputs_>>
    /\ heldOutputs' = heldOutputs \cup {[identifier |-> id, midiOut_ |-> safeOutputs_'[id]]}
    /\ UNCHANGED <<libVars, dispVars, coVars, extButOut, outputsPresent, reachedClosedDevice>>

\* the user plugs an output in or pulls it
PlugOutput(id) ==
    /\ id \notin outputsPresent
    /\ outputsPresent' = outputsPresent \cup {id}
    /\ UNCHANGED <<libVars, dispVars, coVars, extButOut, outputsOpen_, safeOutputs_,
                   devicesOpened, devicesAlive, heldOutputs, reachedClosedDevice>>

UnplugOutput(id) ==
    /\ id \in outputsPresent
    /\ outputsPresent' = outputsPresent \ {id}
    /\ UNCHANGED <<libVars, dispVars, coVars, extButOut, outputsOpen_, safeOutputs_,
                   devicesOpened, devicesAlive, heldOutputs, reachedClosedDevice>>

\* MidiController::timerCallback, the outputs: every open output that is no longer
\* among the current outputs is reset (the MidiOutput is destroyed) and its
\* entries are erased from outputsOpen_ and safeOutputs_
toDeleteOutput == {id \in Endpoints : outputsOpen_[id] # nullptr /\ id \notin outputsPresent}

TimerCallback ==
    /\ devicesAlive' = devicesAlive \ {outputsOpen_[id] : id \in toDeleteOutput}
    /\ outputsOpen_' = [id \in Endpoints |->
                           IF id \in toDeleteOutput THEN nullptr ELSE outputsOpen_[id]]
    /\ safeOutputs_' = [id \in Endpoints |->
                           IF id \in toDeleteOutput THEN NoEntry ELSE safeOutputs_[id]]
    /\ UNCHANGED <<libVars, dispVars, coVars, extButOut, outputsPresent, devicesOpened,
                   heldOutputs, reachedClosedDevice>>

\* SafeMidiOutput::sendMessageNow through a handle a caller holds: dropped if
\* midiOut_ is null, otherwise midiOut_->sendMessageNow(message)
SendMessageNow(h) ==
    /\ h \in heldOutputs
    /\ reachedClosedDevice' =
          (reachedClosedDevice \/ (h.midiOut_ # nullptr /\ h.midiOut_ \notin devicesAlive))
    /\ UNCHANGED <<libVars, dispVars, coVars, extButOut, outputsPresent, outputsOpen_,
                   safeOutputs_, devicesOpened, devicesAlive, heldOutputs>>

\* a caller lets go of a handle
ReleaseOutput(h) ==
    /\ h \in heldOutputs
    /\ heldOutputs' = heldOutputs \ {h}
    /\ UNCHANGED <<libVars, dispVars, coVars, extButOut, outputsPresent, outputsOpen_,
                   safeOutputs_, devicesOpened, devicesAlive, reachedClosedDevice>>

HeldHandles == [identifier : Endpoints, midiOut_ : 0..MaxOpens]

(***************************************************************************)
(* FindSynthOnMidiNetwork::detectSynth: the discovery of a synth.  The     *)
(* coroutine asyncDetectSynth probes the outputs one after the other and   *)
(* awaits the replies; detectSynth creates it, resumes it once and takes   *)
(* its result.                                                             *)
(***************************************************************************)
Inputs == 1..MaxInputs
Channels == 0..MaxChannel
numDevices == MaxOutputs        \* juce::MidiOutput::getAvailableDevices().size()
Locations == [input : Inputs, output : Endpoints, channel : Channels]

InitDiscoveryIdle ==
    /\ respondingSynth = {}
    /\ detectPc = "returned" /\ outputI = 0 /\ locationsFound = <<>>
    /\ detectQueue = <<>> /\ detectDone = FALSE /\ detectResult = <<>>
    /\ replyInFlight = {} /\ replied = FALSE /\ detectHandler = FALSE

\* sendBlockOfMessagesFullSpeed(synth.deviceDetect(channel)) on every channel to
\* search: the synth wired to that output will answer on its input with its channel
DeviceDetect(output) ==
    {[input |-> s.input, channel |-> s.channel] : s \in {x \in respondingSynth : x.output = output}}

\* the body of asyncDetectSynth from the return of a co_await with singleMessage
\* to its next co_await or its co_return: <<outputI, locationsFound, detectDone,
\* replyInFlight>>.  expired tells whether deviceDetectSleepMS() have passed
\* since the probes of the current output were sent, inFlight which replies
\* are on their way.
AsyncDetectSynthBody(singleMessage, expired, inFlight) ==
    LET isValid_ == singleMessage # <<>>
        found == IF isValid_
                 THEN Append(locationsFound, [input |-> singleMessage[1].input,
                                              output |-> outputI,
                                              channel |-> singleMessage[1].channel])
                 ELSE locationsFound
    IN IF ~isValid_ /\ ~expired
       THEN <<outputI, found, FALSE, inFlight>>
       ELSE IF outputI + 1 > numDevices
       THEN <<outputI + 1, found, TRUE, inFlight>>
       ELSE <<outputI + 1, found, FALSE, inFlight \cup DeviceDetect(outputI + 1)>>

\* awaiter::await_resume: the first message of the queue, or {} if it is empty
DetectAwaitResume(queue) == IF queue = <<>> THEN <<>> ELSE <<Head(queue)>>

\* auto coroutine = asyncDetectSynth(synth, progressHandler): the constructor
\* registers the handler and the body runs to its first co_await
DetectSynthCreate ==
    /\ detectPc = "create"
    /\ detectPc' = "resume"
    /\ detectHandler' = TRUE
    /\ outputI' = 1
    /\ replyInFlight' = DeviceDetect(1)
    /\ UNCHANGED <<libVars, dispVars, coVars, extButDisc, respondingSynth, locationsFound,
                   detectQueue, detectDone, detectResult, replied>>

\* handle.resume() on behalf of thread: the body runs on from its co_await.
\* Resuming a coroutine that is done has no defined behaviour: the call returns
\* or the process goes down.
DetectResume(queue, inFlight, expired, outcome) ==
    IF detectDone
    THEN /\ outcome \in {"returns", "crashes"}
         /\ detectQueue' = queue
         /\ replyInFlight' = inFlight
         /\ UNCHANGED <<outputI, locationsFound, detectDone>>
    ELSE /\ outcome = "continues"
         /\ LET body == AsyncDetectSynthBody(DetectAwaitResume(queue), expired, inFlight)
            IN /\ detectQueue' = (IF queue = <<>> THEN <<>> ELSE Tail(queue))
               /\ outputI' = body[1]
               /\ locationsFound' = body[2]
               /\ detectDone' = body[3]
               /\ replyInFlight' = body[4]

\* the reply of the synth arrives: the handler of the coroutine, on the MIDI
\* input thread, enqueues it and resumes the coroutine
DetectReplyArrives(reply, expired, outcome) ==
    /\ reply \in replyInFlight
    /\ detectPc \in {"resume", "getResult"}
    /\ detectHandler
    /\ replied' = TRUE
    /\ DetectResume(Append(detectQueue, reply), replyInFlight \ {reply}, expired, outcome)
    /\ detectPc' = IF outcome = "crashes" THEN "crashed" ELSE detectPc
    /\ UNCHANGED <<libVars, dispVars, coVars, extButDisc, respondingSynth, detectResult,
                   detectHandler>>

\* coroutine.handle.resume() of detectSynth
DetectSynthResume(expired, outcome) ==
    /\ detectPc = "resume"
    /\ DetectResume(detectQueue, replyInFlight, expired, outcome)
    /\ detectPc' = IF outcome = "crashes" THEN "crashed" ELSE "getResult"
    /\ UNCHANGED <<libVars, dispVars, coVars, extButDisc, respondingSynth, detectResult,
                   replied, detectHandler>>

\* return coroutine.getResult(): the promise's returnValue_, which co_return
\* sets; then ~MidiCoroutine removes the handler
DetectSynthReturn ==
    /\ detectPc = "getResult"
    /\ detectResult' = (IF detectDone THEN locationsFound ELSE <<>>)
    /\ detectHandler' = FALSE
    /\ detectPc' = "returned"
    /\ UNCHANGED <<libVars, dispVars, coVars, extButDisc, respondingSynth, outputI,
                   locationsFound, detectQueue, detectDone, replyInFlight, replied>>

(***************************************************************************)
(* PatchDatabase: the catalog.  The three tables are sequences of rows in  *)
(* rowid order; the SQL statements of the source are functions on the      *)
(* record db of the three tables.  A statement that violates a constraint  *)
(* of the schema throws and changes nothing; what a thrown statement does  *)
(* to the statements before it depends on the transaction of its caller.   *)
(* Names, categories, favourites, comments: the catalog does not decide by *)
(* them in what is modelled; every patch is neither favourite nor regular. *)
(***************************************************************************)
Synths == {"A", "B"}
\* the bytes of the patches: 1 and 2 differ in the bytes that version 1 of
\* the fingerprint leaves out
PatchData == {1, 2}
NULL == "NULL"
Sources == {"file", "EditBufferImport"}
PatchListKinds == {"PatchList", "ImportList", "SynthBank", "UserBank"}

\* what the callers hand in: a patch of a synth with its bytes and its provenance
PatchHolders == [synth : Synths, data : PatchData, hidden : {FALSE}, source : Sources]

\* Synth::calculateFingerprint: version 0 tells all patch data apart, the
\* updated algorithm of version 1 ignores the bytes in which they differ
calculateFingerprint(version, data) == IF version = 0 THEN data ELSE 1
md5(patch) == calculateFingerprint(fingerprintVersion, patch.data)

UPDATE_NAME == {"name"}
UPDATE_ALL == {"name", "categories", "hidden", "data", "favorite", "comment", "author", "info"}

EmptyCatalog == [patches |-> <<>>, lists |-> <<>>, patch_in_list |-> <<>>]
Catalog == [patches |-> patchTable, lists |-> lists, patch_in_list |-> patch_in_list]
Ok(db) == [db |-> db, threw |-> FALSE]
Threw(db) == [db |-> db, threw |-> TRUE]

MinOf(S) == CHOOSE i \in S : \A j \in S : i <= j
HasPatch(db, synth, md5v) ==
    \E i \in DOMAIN db.patches : db.patches[i].synth = synth /\ db.patches[i].md5 = md5v
References(entry, row) == entry.synth = row.synth /\ entry.md5 = row.md5
PatchKey(row) == [synth |-> row.synth, md5 |-> row.md5]

\* INSERT INTO patches without the key of the table
InsertPatchRowNoKey(db, row) == Ok([db EXCEPT !.patches = Append(@, row)])

\* INSERT INTO patches, under PRIMARY KEY (synth, md5)
InsertPatchRow(db, row) ==
    IF HasPatch(db, row.synth, row.md5) THEN Threw(db)
    ELSE Ok([db EXCEPT !.patches = Append(@, row)])

\* INSERT INTO patch_in_list without the reference to patches
InsertPatchInListUnchecked(db, entry) == Ok([db EXCEPT !.patch_in_list = Append(@, entry)])

\* INSERT INTO patch_in_list, under FOREIGN KEY(synth, md5) REFERENCES patches
InsertPatchInList(db, entry) ==
    IF HasPatch(db, entry.synth, entry.md5)
    THEN Ok([db EXCEPT !.patch_in_list = Append(@, entry)])
    ELSE Threw(db)

\* DELETE FROM patches WHERE ROWID IN doomed, with foreign_keys = ON
DeletePatchRows(db, doomed) ==
    IF \E i \in doomed, j \in DOMAIN db.patch_in_list :
           References(db.patch_in_list[j], db.patches[i])
    THEN Threw(db)
    ELSE LET kept == {i \in DOMAIN db.patches : i \notin doomed}
             RECURSIVE rows(_)
             rows(i) == IF i > Len(db.patches) THEN <<>>
                        ELSE IF i \in kept THEN <<db.patches[i]>> \o rows(i + 1)
                        ELSE rows(i + 1)
         IN  Ok([db EXCEPT !.patches = rows(1)])

\* DELETE FROM patch_in_list WHERE ROWID IN doomed
DeleteListEntries(db, doomed) ==
    LET RECURSIVE rows(_)
        rows(i) == IF i > Len(db.patch_in_list) THEN <<>>
                   ELSE IF i \in doomed THEN rows(i + 1)
                   ELSE <<db.patch_in_list[i]>> \o rows(i + 1)
    IN  [db EXCEPT !.patch_in_list = rows(1)]

\* SELECT * FROM lists WHERE id = :ID (id is the primary key of lists)
HasList(db, id) == \E i \in DOMAIN db.lists : db.lists[i].id = id
ListRow(db, id) == db.lists[CHOOSE i \in DOMAIN db.lists : db.lists[i].id = id]

\* PatchDataBaseImpl::putPatch: strictly an insert, the exception is logged
putPatch(db, patch) ==
    InsertPatchRow(db, [synth |-> patch.synth, md5 |-> md5(patch), data |-> patch.data,
                        hidden |-> patch.hidden, sourceInfo |-> patch.source]).db

\* loadPatchFromQueryRow: the holder made of a row of patches
loadPatchFromQueryRow(row) ==
    [synth |-> row.synth, data |-> row.data, hidden |-> row.hidden, source |-> row.sourceInfo]

\* a merge that never finds a patch in the table
bulkGetNothing(db, incoming) == [m \in {} |-> "A"]

\* bulkGetPatches: which of the incoming patches are in the table already; the
\* map is keyed by the md5 alone and keeps the first patch found for it
bulkGetPatches(db, incoming) ==
    LET found == {i \in DOMAIN incoming : HasPatch(db, incoming[i].synth, md5(incoming[i]))}
    IN  [m \in {md5(incoming[i]) : i \in found} |->
            incoming[MinOf({i \in found : md5(incoming[i]) = m})].synth]

\* updatePatch: UPDATE patches SET ... WHERE md5 = :MD5 and synth = :SYN
updatePatch(db, newPatch, existingSynth, updateChoices) ==
    [db EXCEPT !.patches =
        [i \in DOMAIN @ |->
            IF @[i].md5 = md5(newPatch) /\ @[i].synth = existingSynth
            THEN [@[i] EXCEPT !.data = IF "data" \in updateChoices THEN newPatch.data ELSE @,
                              !.hidden = IF "hidden" \in updateChoices THEN newPatch.hidden ELSE @]
            ELSE @[i]]]

\* mergePatchesIntoDatabase, the first loop: the known patches are updated,
\* the others collected in outNewPatches
RECURSIVE updateKnownPatches(_, _, _, _, _)
updateKnownPatches(db, incoming, knownPatches, updateChoice, outNewPatches) ==
    IF incoming = <<>> THEN [db |-> db, outNewPatches |-> outNewPatches]
    ELSE LET patch == Head(incoming)
             md5_key == md5(patch)
         IN  IF md5_key \in DOMAIN knownPatches
             THEN updateKnownPatches(
                      IF updateChoice # UPDATE_NAME
                      THEN \* getSinglePatch, and updatePatch if it found the row
                           IF HasPatch(db, patch.synth, md5_key)
                           THEN updatePatch(db, patch, patch.synth, updateChoice)
                           ELSE db
                      ELSE updatePatch(db, patch, knownPatches[md5_key], UPDATE_NAME),
                      Tail(incoming), knownPatches, updateChoice, outNewPatches)
             ELSE updateKnownPatches(db, Tail(incoming), knownPatches, updateChoice,
                                     Append(outNewPatches, patch))

\* mergePatchesIntoDatabase, the second loop: the new patches are inserted,
\* one for each md5
RECURSIVE insertNewPatches(_, _, _)
insertNewPatches(db, newPatches, md5Inserted) ==
    IF newPatches = <<>> THEN db
    ELSE LET newPatch == Head(newPatches)
         IN  IF md5(newPatch) \in md5Inserted
             THEN insertNewPatches(db, Tail(newPatches), md5Inserted)
             ELSE insertNewPatches(putPatch(db, newPatch), Tail(newPatches),
                                   md5Inserted \cup {md5(newPatch)})

mergePatchesIntoDatabase(db, incoming, updateChoice) ==
    LET knownPatches == bulkGetPatches(db, incoming)
        updated == updateKnownPatches(db, incoming, knownPatches, updateChoice, <<>>)
    IN  [db |-> insertNewPatches(updated.db, updated.outNewPatches, {}),
         outNewPatches |-> updated.outNewPatches]

\* SELECT * from patch_in_list where id = :ID order by order_num: the rowids
ListEntries(db, id) ==
    LET idx == {i \in DOMAIN db.patch_in_list : db.patch_in_list[i].id = id}
        before(i, j) == \/ db.patch_in_list[i].order_num < db.patch_in_list[j].order_num
                        \/ /\ db.patch_in_list[i].order_num = db.patch_in_list[j].order_num
                           /\ i < j
    IN  CHOOSE s \in [1..Cardinality(idx) -> idx] :
            \A a, b \in DOMAIN s : a < b => before(s[a], s[b])

NoList == [id |-> NULL, kind |-> "PatchList", synth |-> NULL, patches |-> <<>>]

\* getPatchList: the list object of a row of lists, with its patches
getPatchList(db, listID, synths) ==
    IF ~HasList(db, listID) THEN NoList
    ELSE LET row == ListRow(db, listID)
             entries == ListEntries(db, listID)
             RECURSIVE load(_)
             load(k) ==
                 IF k > Len(entries) THEN <<>>
                 ELSE LET e == db.patch_in_list[entries[k]]
                          rows == {i \in DOMAIN db.patches : References(e, db.patches[i])}
                      IN  IF e.synth \in synths /\ rows # {}
                          THEN <<loadPatchFromQueryRow(db.patches[MinOf(rows)])>> \o load(k + 1)
                          ELSE load(k + 1)
         IN  IF row.synth # NULL /\ row.synth \notin synths THEN NoList
             ELSE [id |-> listID,
                   kind |-> CASE row.list_type = NORMAL_LIST -> "PatchList"
                              [] row.list_type = IMPORT_LIST -> "ImportList"
                              [] row.list_type = SYNTH_BANK -> "SynthBank"
                              [] row.list_type = USER_BANK -> "UserBank",
                   synth |-> row.synth,
                   patches |-> load(1)]

\* putPatchList, the loop of addPatchToListInternal: position i of the list
\* goes to order_num i; the first insert that throws ends the loop
RECURSIVE addPatchesToList(_, _, _, _)
addPatchesToList(db, id, listPatches, i) ==
    IF i >= Len(listPatches) THEN Ok(db)
    ELSE LET patch == listPatches[i + 1]
             inserted == InsertPatchInList(db, [id |-> id, synth |-> patch.synth,
                                                md5 |-> md5(patch), order_num |-> i])
         IN  IF inserted.threw THEN inserted
             ELSE addPatchesToList(inserted.db, id, listPatches, i + 1)

\* putPatchList: the row of lists is updated or inserted, the entries are
\* replaced by the patches of the list object
putPatchList(db, patchList, with_transaction) ==
    LET isSynthBank == patchList.kind \in {"SynthBank", "UserBank"}
        list_type == CASE patchList.kind = "PatchList" -> NORMAL_LIST
                       [] patchList.kind = "ImportList" -> IMPORT_LIST
                       [] patchList.kind = "SynthBank" -> SYNTH_BANK
                       [] patchList.kind = "UserBank" -> USER_BANK
        listed ==
            IF HasList(db, patchList.id)
            THEN DeleteListEntries(
                     [db EXCEPT !.lists = [i \in DOMAIN @ |->
                         IF @[i].id = patchList.id THEN [@[i] EXCEPT !.list_type = list_type]
                         ELSE @[i]]],
                     {i \in DOMAIN db.patch_in_list : db.patch_in_list[i].id = patchList.id})
            ELSE [db EXCEPT !.lists = Append(@,
                     [id |-> patchList.id,
                      synth |-> IF patchList.kind = "PatchList" THEN NULL ELSE patchList.synth,
                      list_type |-> list_type])]
        added == addPatchesToList(listed, patchList.id, patchList.patches, 0)
    IN  IF added.threw /\ with_transaction THEN db ELSE added.db

\* sortPatchesIntoImportLists: the import list of a patch
importListId(patch) == "import:" \o patch.synth \o ":" \o patch.source

\* the ids in the order of the two maps: newImportLists, then editBufferLists
ImportListIds ==
    <<"import:A:file", "import:B:file", "import:A:EditBufferImport", "import:B:EditBufferImport">>

\* ensureImportList and the addPatch calls: the list object of one id
importListOf(db, listId, newPatches) ==
    LET mine == SelectSeq(newPatches, LAMBDA p : importListId(p) = listId)
        synth == mine[1].synth
        existing == getPatchList(db, listId, {synth})
    IN  [id |-> listId, kind |-> "ImportList", synth |-> synth,
         patches |-> (IF existing.id = listId /\ existing.kind = "ImportList"
                      THEN existing.patches ELSE <<>>) \o mine]

RECURSIVE storeImportLists(_, _, _)
storeImportLists(db, newPatches, k) ==
    IF k > Len(ImportListIds) THEN db
    ELSE IF \E i \in DOMAIN newPatches : importListId(newPatches[i]) = ImportListIds[k]
         THEN storeImportLists(
                  putPatchList(db, importListOf(db, ImportListIds[k], newPatches), FALSE),
                  newPatches, k + 1)
         ELSE storeImportLists(db, newPatches, k + 1)

sortPatchesIntoImportLists(db, newPatches) == storeImportLists(db, newPatches, 1)

\* an import: the patches are merged, the inserted ones sorted into import lists
mergePatches(db, incoming, updateChoice) ==
    LET merged == mergePatchesIntoDatabase(db, incoming, updateChoice)
    IN  sortPatchesIntoImportLists(merged.db, merged.outNewPatches)

\* addPatchToList: room is made at insertIndex, then the entry is inserted
addPatchToList(db, id, patch, insertIndex) ==
    LET moved == [db EXCEPT !.patch_in_list = [i \in DOMAIN @ |->
                     IF @[i].id = id /\ @[i].order_num >= insertIndex
                     THEN [@[i] EXCEPT !.order_num = @ + 1] ELSE @[i]]]
        inserted == InsertPatchInList(moved, [id |-> id, synth |-> patch.synth,
                                              md5 |-> md5(patch), order_num |-> insertIndex])
    IN  IF inserted.threw THEN db ELSE inserted.db

\* renumList.  The statement numbers the entries of the list by order_num
\* (ROW_NUMBER() - 1) and gives every entry the number of the first row of
\* that numbering with its synth, md5 and order_num.  ROW_NUMBER leaves the
\* order of entries with the same order_num open, and the numbering is a
\* query on the table the statement is updating: it is evaluated once, or
\* again for every entry on the table as the entries before it have left it.
RenumEvaluations == {"once", "per row"}
TieOrders == {"ascending", "descending"}

new_order(rows, id, i, tieOrder) ==
    Cardinality({j \in DOMAIN rows :
        /\ rows[j].id = id
        /\ \/ rows[j].order_num < rows[i].order_num
           \/ /\ rows[j].order_num = rows[i].order_num
              /\ IF tieOrder = "ascending" THEN j < i ELSE j > i})

newOrderOf(rows, id, i, tieOrder) ==
    MinOf({new_order(rows, id, j, tieOrder) : j \in {k \in DOMAIN rows :
              /\ rows[k].id = id
              /\ rows[k].synth = rows[i].synth
              /\ rows[k].md5 = rows[i].md5
              /\ rows[k].order_num = rows[i].order_num}})

RECURSIVE renumRows(_, _, _, _)
renumRows(rows, id, i, tieOrder) ==
    IF i > Len(rows) THEN rows
    ELSE IF rows[i].id = id
         THEN renumRows([rows EXCEPT ![i].order_num = newOrderOf(rows, id, i, tieOrder)],
                        id, i + 1, tieOrder)
         ELSE renumRows(rows, id, i + 1, tieOrder)

renumList(db, list_id, evaluation, tieOrder) ==
    [db EXCEPT !.patch_in_list =
        IF evaluation = "once"
        THEN [i \in DOMAIN @ |->
                 IF @[i].id = list_id
                 THEN [@[i] EXCEPT !.order_num = newOrderOf(db.patch_in_list, list_id, i, tieOrder)]
                 ELSE @[i]]
        ELSE renumRows(@, list_id, 1, tieOrder)]

\* movePatchInList: room is made at newIndex, the entry of the patch at the
\* previous index (moved up by one when it was at or behind newIndex) gets
\* newIndex, and the list is renumbered
movePatchInList(db, id, patch, previousIndex, newIndex, evaluation, tieOrder) ==
    LET moved == [i \in DOMAIN db.patch_in_list |->
                     IF db.patch_in_list[i].id = id /\ db.patch_in_list[i].order_num >= newIndex
                     THEN [db.patch_in_list[i] EXCEPT !.order_num = @ + 1]
                     ELSE db.patch_in_list[i]]
        INC == IF newIndex > previousIndex THEN previousIndex ELSE previousIndex + 1
        placed == [i \in DOMAIN moved |->
                     IF /\ moved[i].id = id
                        /\ moved[i].synth = patch.synth
                        /\ moved[i].md5 = md5(patch)
                        /\ moved[i].order_num = INC
                     THEN [moved[i] EXCEPT !.order_num = newIndex]
                     ELSE moved[i]]
    IN  renumList([db EXCEPT !.patch_in_list = placed], id, evaluation, tieOrder)

\* removePatchFromList: the entries of the patch at order_num are deleted and
\* the list is renumbered
removePatchFromList(db, list_id, synth_name, md5v, order_num, evaluation, tieOrder) ==
    renumList(DeleteListEntries(db, {i \in DOMAIN db.patch_in_list :
                                        /\ db.patch_in_list[i].id = list_id
                                        /\ db.patch_in_list[i].synth = synth_name
                                        /\ db.patch_in_list[i].md5 = md5v
                                        /\ db.patch_in_list[i].order_num = order_num}),
              list_id, evaluation, tieOrder)

\* PatchFilter, without the fields no modelled column answers to
ListIds == {"L1", "BankA"} \cup {ImportListIds[k] : k \in DOMAIN ImportListIds}
PatchFilters == [synths : SUBSET Synths, listID : {""} \cup ListIds, showHidden : BOOLEAN,
                 orderBy : {"No_ordering", "Order_by_Import_id"}]

\* the columns of patch_in_list where a LEFT JOIN found no row
NoEntryRow == [id |-> NULL, synth |-> NULL, md5 |-> 0, order_num |-> 0]
EntryOf(db, j) == IF j = 0 THEN NoEntryRow ELSE db.patch_in_list[j]

\* buildWhereClause, for one row of the join: the synths, the list, and the
\* visibility (no flag: hidden = 0; showHidden: hidden != 0, the patch being
\* neither favourite nor regular)
buildWhereClause(filter, patch, entry) ==
    /\ filter.synths # {} => patch.synth \in filter.synths
    /\ filter.listID # "" => entry.id = filter.listID
    /\ IF filter.showHidden THEN patch.hidden ELSE ~patch.hidden

\* buildJoinClause: the rows of patches [INNER | LEFT] JOIN patch_in_list, as
\* pairs of rowids (0: no row of patch_in_list)
buildJoinClause(db, filter, outer_join) ==
    IF filter.listID # "" \/ outer_join
    THEN {<<i, j>> \in (DOMAIN db.patches) \X (DOMAIN db.patch_in_list) :
              References(db.patch_in_list[j], db.patches[i])}
         \cup (IF outer_join
               THEN {<<i, 0>> : i \in {i \in DOMAIN db.patches :
                         \A j \in DOMAIN db.patch_in_list :
                             ~References(db.patch_in_list[j], db.patches[i])}}
               ELSE {})
    ELSE {<<i, 0>> : i \in DOMAIN db.patches}

\* buildJoinClause, includeImportOrderingJoin: the rows of import_pil that a
\* patch is joined to (LEFT JOIN: 0 where there is none)
importOrderingJoin(db, i) ==
    LET import_pil == {k \in DOMAIN db.patch_in_list :
                          /\ References(db.patch_in_list[k], db.patches[i])
                          /\ \E l \in DOMAIN db.lists :
                                 /\ db.lists[l].id = db.patch_in_list[k].id
                                 /\ db.lists[l].synth = db.patch_in_list[k].synth
                                 /\ db.lists[l].list_type = IMPORT_LIST}
    IN  IF import_pil = {} THEN {0} ELSE import_pil

\* getPatchesCount: SELECT count(*) FROM patches {join} {where}
getPatchesCount(db, filter) ==
    Cardinality({r \in buildJoinClause(db, filter, FALSE) :
                    buildWhereClause(filter, db.patches[r[1]], EntryOf(db, r[2]))})

\* the rows of a result set, in the order of the rowids
RECURSIVE InRowOrder(_)
InRowOrder(S) ==
    IF S = {} THEN <<>>
    ELSE LET before(r, q) == \/ r[1] < q[1]
                             \/ r[1] = q[1] /\ r[2] < q[2]
                             \/ r[1] = q[1] /\ r[2] = q[2] /\ r[3] <= q[3]
             first == CHOOSE r \in S : \A q \in S : before(r, q)
         IN  <<first>> \o InRowOrder(S \ {first})

\* getPatches with limit = -1: SELECT patches.* FROM patches {join} {where};
\* a row of a synth that is not of the filter is skipped, and a loaded patch
\* whose md5 is not the stored one needs reindexing
getPatches(db, filter) ==
    LET needsImportOrdering == filter.orderBy = "Order_by_Import_id"
        rows == {<<r[1], r[2], k>> : r \in
                    {r \in buildJoinClause(db, filter, FALSE) :
                        buildWhereClause(filter, db.patches[r[1]], EntryOf(db, r[2]))},
                 k \in 0..Len(db.patch_in_list)}
        selected == {r \in rows :
                        /\ r[3] \in (IF needsImportOrdering
                                     THEN importOrderingJoin(db, r[1]) ELSE {0})
                        /\ db.patches[r[1]].synth \in filter.synths}
        ordered == InRowOrder(selected)
        stale == {r \in selected :
                     md5(loadPatchFromQueryRow(db.patches[r[1]])) # db.patches[r[1]].md5}
        reindexing == InRowOrder(stale)
    IN  [result |-> [n \in DOMAIN ordered |-> loadPatchFromQueryRow(db.patches[ordered[n][1]])],
         needsReindexing |->
             [n \in DOMAIN reindexing |->
                 [md5stored |-> db.patches[reindexing[n][1]].md5,
                  patch |-> loadPatchFromQueryRow(db.patches[reindexing[n][1]])]]]

\* removeAllOrphansFromPatchLists
removeAllOrphansFromPatchLists(db) ==
    DeleteListEntries(db, {j \in DOMAIN db.patch_in_list :
                              ~HasPatch(db, db.patch_in_list[j].synth, db.patch_in_list[j].md5)})

\* the rows of patches JOIN patch_in_list JOIN lists that a filter selects
ListedMatches(db, filter) ==
    {r \in (DOMAIN db.patches) \X (DOMAIN db.patch_in_list) \X (DOMAIN db.lists) :
        /\ References(db.patch_in_list[r[2]], db.patches[r[1]])
        /\ db.lists[r[3]].id = db.patch_in_list[r[2]].id
        /\ buildWhereClause(filter, db.patches[r[1]], db.patch_in_list[r[2]])}

\* deletePatches(filter), in one transaction
deletePatchesByFilter(db, filter) ==
    LET \* the matches leave the lists whose synth is NULL
        removed == DeleteListEntries(db,
                       {r[2] : r \in {r \in ListedMatches(db, filter) : db.lists[r[3]].synth = NULL}})
        \* the matches a list with a synth still holds are hidden
        toHide == {r[1] : r \in {r \in ListedMatches(removed, filter) :
                                    removed.lists[r[3]].synth # NULL}}
        hiddenDb == [removed EXCEPT !.patches = [i \in DOMAIN @ |->
                        IF i \in toHide THEN [@[i] EXCEPT !.hidden = TRUE] ELSE @[i]]]
        \* the matches no list holds are deleted
        doomed == {r[1] : r \in {r \in buildJoinClause(hiddenDb, filter, TRUE) :
                      /\ buildWhereClause(filter, hiddenDb.patches[r[1]], EntryOf(hiddenDb, r[2]))
                      /\ EntryOf(hiddenDb, r[2]).id = NULL}}
        deleted == DeletePatchRows(hiddenDb, doomed)
    IN  IF deleted.threw THEN db ELSE removeAllOrphansFromPatchLists(deleted.db)

\* removePatchFromSimpleList
removePatchFromSimpleList(db, synth, md5v) ==
    DeleteListEntries(db, {j \in DOMAIN db.patch_in_list :
        /\ db.patch_in_list[j].synth = synth /\ db.patch_in_list[j].md5 = md5v
        /\ \E l \in DOMAIN db.lists :
               db.lists[l].id = db.patch_in_list[j].id /\ db.lists[l].synth = NULL})

\* isPatchPartOfBank
isPatchPartOfBank(db, synth, md5v) ==
    \E l \in DOMAIN db.lists, j \in DOMAIN db.patch_in_list :
        /\ db.lists[l].id = db.patch_in_list[j].id
        /\ db.lists[l].synth = synth
        /\ db.patch_in_list[j].md5 = md5v

\* deletePatches(synth, md5s): no transaction of its own; a statement that
\* throws ends the loop and the counts returned are 0
RECURSIVE deletePatchesByMd5(_, _, _, _)
deletePatchesByMd5(db, synth, md5s, rowsDeleted) ==
    IF md5s = <<>> THEN [db |-> db, rowsDeleted |-> rowsDeleted]
    ELSE LET simple == removePatchFromSimpleList(db, synth, Head(md5s))
         IN  IF isPatchPartOfBank(simple, synth, Head(md5s))
             THEN deletePatchesByMd5(
                      [simple EXCEPT !.patches = [i \in DOMAIN @ |->
                          IF @[i].synth = synth /\ @[i].md5 = Head(md5s)
                          THEN [@[i] EXCEPT !.hidden = TRUE] ELSE @[i]]],
                      synth, Tail(md5s), rowsDeleted)
             ELSE LET doomed == {i \in DOMAIN simple.patches :
                                    /\ simple.patches[i].synth = synth
                                    /\ simple.patches[i].md5 = Head(md5s)}
                      deleted == DeletePatchRows(simple, doomed)
                  IN  IF deleted.threw THEN [db |-> simple, rowsDeleted |-> 0]
                      ELSE deletePatchesByMd5(deleted.db, synth, Tail(md5s),
                                              rowsDeleted + Cardinality(doomed))

\* reindexPatches, the remapping of the list entries: UPDATE patch_in_list
\* SET md5 = :MDN WHERE synth = :SYN and md5 = :MD5, under the foreign key
RECURSIVE remapListEntries(_, _)
remapListEntries(db, toBeReindexed) ==
    IF toBeReindexed = <<>> THEN Ok(db)
    ELSE LET remap == Head(toBeReindexed)
             found == {j \in DOMAIN db.patch_in_list :
                          /\ db.patch_in_list[j].synth = remap.patch.synth
                          /\ db.patch_in_list[j].md5 = remap.md5stored}
         IN  IF found # {} /\ ~HasPatch(db, remap.patch.synth, md5(remap.patch))
             THEN Threw(db)
             ELSE remapListEntries(
                      [db EXCEPT !.patch_in_list = [j \in DOMAIN @ |->
                          IF j \in found THEN [@[j] EXCEPT !.md5 = md5(remap.patch)] ELSE @[j]]],
                      Tail(toBeReindexed))

\* reindexPatches without the transaction: what was done before it gave up stays
reindexPatchesUncommitted(db, filter) ==
    IF Cardinality(filter.synths) > 1 THEN [db |-> db, returned |-> -1]
    ELSE LET toBeReindexed == getPatches(db, filter).needsReindexing
             toBeReinserted == [n \in DOMAIN toBeReindexed |-> toBeReindexed[n].patch]
             toBeDeleted == [n \in DOMAIN toBeReindexed |-> toBeReindexed[n].md5stored]
             merged == mergePatchesIntoDatabase(db, toBeReinserted, UPDATE_ALL).db
             remapped == remapListEntries(merged, toBeReindexed)
             swept == deletePatchesByMd5(remapped.db, toBeReindexed[1].patch.synth,
                                         toBeDeleted, 0)
         IN  IF toBeReindexed = <<>>
             THEN [db |-> db, returned |-> getPatchesCount(db, filter)]
             ELSE IF remapped.threw THEN [db |-> remapped.db, returned |-> -1]
             ELSE IF swept.rowsDeleted # Len(toBeReindexed)
             THEN [db |-> swept.db, returned |-> -1]
             ELSE [db |-> swept.db, returned |-> getPatchesCount(swept.db, filter)]

\* reindexPatches: one synth only; the patches with a stale md5 are merged
\* back in under their new md5, the list entries remapped and the stale rows
\* deleted, in one transaction that is rolled back where the function gives
\* up; what is returned is -1 then, and the number of patches of the filter
\* otherwise
reindexPatches(db, filter) ==
    IF Cardinality(filter.synths) > 1 THEN [db |-> db, returned |-> -1]
    ELSE LET toBeReindexed == getPatches(db, filter).needsReindexing
             toBeReinserted == [n \in DOMAIN toBeReindexed |-> toBeReindexed[n].patch]
             toBeDeleted == [n \in DOMAIN toBeReindexed |-> toBeReindexed[n].md5stored]
             merged == mergePatchesIntoDatabase(db, toBeReinserted, UPDATE_ALL).db
             remapped == remapListEntries(merged, toBeReindexed)
             swept == deletePatchesByMd5(remapped.db, toBeReindexed[1].patch.synth,
                                         toBeDeleted, 0)
         IN  IF toBeReindexed = <<>>
             THEN [db |-> db, returned |-> getPatchesCount(db, filter)]
             ELSE IF remapped.threw THEN [db |-> db, returned |-> -1]
             ELSE IF swept.rowsDeleted # Len(toBeReindexed) THEN [db |-> db, returned |-> -1]
             ELSE [db |-> swept.db, returned |-> getPatchesCount(swept.db, filter)]

\* what the tables hold: patch rows, lists, list entries
CatalogCounts(db) == <<Len(db.patches), Len(db.lists), Len(db.patch_in_list)>>

\* the patches a filter selects that a synth bank holds
MatchesInSynthBank(db, filter) ==
    {PatchKey(db.patches[r[1]]) : r \in
        {r \in (DOMAIN db.patches) \X (DOMAIN db.patch_in_list) \X (DOMAIN db.lists) :
            /\ References(db.patch_in_list[r[2]], db.patches[r[1]])
            /\ db.lists[r[3]].id = db.patch_in_list[r[2]].id
            /\ db.lists[r[3]].list_type = SYNTH_BANK
            /\ \E q \in buildJoinClause(db, filter, FALSE) :
                   /\ q[1] = r[1]
                   /\ buildWhereClause(filter, db.patches[q[1]], EntryOf(db, q[2]))}}

\* no reindexPatches was the last operation
NoReindexCall == [called |-> FALSE, synths |-> {}, returned |-> 0, flagged |-> <<>>, db |-> EmptyCatalog]

InitCatalogIdle ==
    /\ patchTable = <<>> /\ lists = <<>> /\ patch_in_list = <<>>
    /\ fingerprintVersion = 0 /\ catalogOps = 0
    /\ lastOperation = "none" /\ bankReferenced = {}
    /\ mergeInput = <<>> /\ mergesDone = 0 /\ countsAfterOnce = <<0, 0, 0>>
    /\ reindexCall = NoReindexCall

\* an operation leaves db behind
CommitCatalog(db, operation) ==
    /\ catalogOps < MaxCatalogOps
    /\ Len(db.patch_in_list) <= MaxEntries
    /\ patchTable' = db.patches
    /\ lists' = db.lists
    /\ patch_in_list' = db.patch_in_list
    /\ catalogOps' = catalogOps + 1
    /\ lastOperation' = operation
    /\ IF operation = "reindexPatches" THEN TRUE ELSE reindexCall' = NoReindexCall
    /\ UNCHANGED <<libVars, dispVars, coVars, extButCatalog, fingerprintVersion,
                   mergeInput, mergesDone, countsAfterOnce>>

PutPatch(patch) ==
    /\ CommitCatalog(putPatch(Catalog, patch), "other")
    /\ bankReferenced' = {}

MergePatchesIntoDatabase(incoming, updateChoice, createImportLists) ==
    /\ CommitCatalog(IF createImportLists THEN mergePatches(Catalog, incoming, updateChoice)
                     ELSE mergePatchesIntoDatabase(Catalog, incoming, updateChoice).db,
                     "other")
    /\ bankReferenced' = {}

PutPatchList(patchList) ==
    /\ CommitCatalog(putPatchList(Catalog, patchList, TRUE), "other")
    /\ bankReferenced' = {}

\* the ListInfo is the one of a list of the catalog
AddPatchToList(id, patch, insertIndex) ==
    /\ HasList(Catalog, id)
    /\ CommitCatalog(addPatchToList(Catalog, id, patch, insertIndex), "other")
    /\ bankReferenced' = {}

MovePatchInList(id, patch, previousIndex, newIndex, evaluation, tieOrder) ==
    /\ HasList(Catalog, id)
    /\ CommitCatalog(movePatchInList(Catalog, id, patch, previousIndex, newIndex,
                                     evaluation, tieOrder), "movePatchInList")
    /\ bankReferenced' = {}

RemovePatchFromList(list_id, synth_name, md5v, order_num, evaluation, tieOrder) ==
    /\ HasList(Catalog, list_id)
    /\ CommitCatalog(removePatchFromList(Catalog, list_id, synth_name, md5v, order_num,
                                         evaluation, tieOrder), "removePatchFromList")
    /\ bankReferenced' = {}

DeletePatchesByFilter(filter) ==
    /\ CommitCatalog(deletePatchesByFilter(Catalog, filter), "deletePatches(filter)")
    /\ bankReferenced' = MatchesInSynthBank(Catalog, filter)

DeletePatchesByMd5(synth, md5s) ==
    /\ CommitCatalog(deletePatchesByMd5(Catalog, synth, md5s, 0).db, "other")
    /\ bankReferenced' = {}

ReindexPatches(filter) ==
    /\ CommitCatalog(reindexPatches(Catalog, filter).db, "reindexPatches")
    /\ bankReferenced' = {}
    /\ reindexCall' = [called |-> TRUE, synths |-> filter.synths,
                       returned |-> reindexPatches(Catalog, filter).returned,
                       flagged |-> getPatches(Catalog, filter).needsReindexing,
                       db |-> Catalog]

\* the adaptation of the synths is updated: the fingerprints are calculated anew
FingerprintAlgorithmChanges ==
    /\ fingerprintVersion = 0
    /\ catalogOps < MaxCatalogOps
    /\ fingerprintVersion' = 1
    /\ catalogOps' = catalogOps + 1
    /\ lastOperation' = "other"
    /\ bankReferenced' = {}
    /\ reindexCall' = NoReindexCall
    /\ UNCHANGED <<libVars, dispVars, coVars, extButCatalog, patchTable, lists, patch_in_list,
                   mergeInput, mergesDone, countsAfterOnce>>

\* the same patch list is merged again
MergeSameList ==
    /\ mergesDone < 2
    /\ LET db == mergePatches(Catalog, mergeInput, UPDATE_ALL)
       IN  /\ patchTable' = db.patches
           /\ lists' = db.lists
           /\ patch_in_list' = db.patch_in_list
           /\ countsAfterOnce' = IF mergesDone = 0 THEN CatalogCounts(db) ELSE countsAfterOnce
    /\ mergesDone' = mergesDone + 1
    /\ UNCHANGED <<libVars, dispVars, coVars, extButCatalog, fingerprintVersion, catalogOps,
                   lastOperation, bankReferenced, mergeInput, reindexCall>>

(***************************************************************************)
(* SynthBank: the patch list of one bank of one synth.  The list is kept   *)
(* in the patches_ of PatchList; setPatches renumbers what it is handed    *)
(* and fills the list up with empty holders, the other operations change   *)
(* a copy of the list and hand it to setPatches.                           *)
(***************************************************************************)
synth_ == "BankSynth"       \* the synth of the bank
ForeignSynth == "Foreign"   \* the synth of the patches that do not belong into the bank
bankNumber == 0             \* SynthBank::bankNumber(): the bank of the synth this list is of
OtherBank == 1              \* another bank of the synth
BankSynths == {synth_, ForeignSynth}

\* PatchHolder: the synth, the patch (its bytes, or nullptr for none), the name, the
\* bank and the program number, which knows its bank as well
Holder(synth, patch, name, bank, program) ==
    [synth |-> synth, patch |-> patch, name |-> name, bank |-> bank,
     program |-> program, programBank |-> bank]

\* midikraft::PatchHolder(synth_, nullptr, nullptr) with bank and program set
emptyHolder(j) == Holder(synth_, nullptr, "", bankNumber, j)

\* the holders the callers hand in in lists: two patches of the synth, whose
\* program numbers are not the places they will have, and one of another synth
ListedHolders ==
    { Holder(synth_, 1, "PatchA", bankNumber, SlotsInBank),
      Holder(synth_, 2, "PatchB", bankNumber, 0),
      Holder(ForeignSynth, 1, "Foreign", bankNumber, 0) }

\* the holders the callers hand in one at a time: these, a patch of another
\* bank and a holder without patch
GivenHolders ==
    ListedHolders \cup
    { Holder(synth_, 1, "PatchB", OtherBank, 0),
      Holder(synth_, nullptr, "", bankNumber, 1) }

\* SynthBank::validatePatchInfo
validatePatchInfo(patch) ==
    /\ patch.synth = synth_
    /\ patch.bank = bankNumber
    /\ patch.programBank = bankNumber

\* setPatches, the first loop: setBank and setPatchNumber of every patch
renumbered(patches) ==
    [i \in 1..Len(patches) |->
        [patches[i] EXCEPT !.bank = bankNumber, !.program = i - 1, !.programBank = bankNumber]]

\* setPatches, the second loop: empty holders up to the size of the bank
filledUp(patches) ==
    IF Len(patches) >= SlotsInBank THEN patches
    ELSE patches \o [k \in 1..(SlotsInBank - Len(patches)) |-> emptyHolder(Len(patches) + k - 1)]

\* setPatches without the renumbering and the filling up
setPatchesAsGiven(current, patches) ==
    IF \A i \in 1..Len(patches) : validatePatchInfo(patches[i]) THEN patches ELSE current

\* SynthBank::setPatches: the list the bank holds afterwards
setPatches(current, patches) ==
    LET normalized == filledUp(renumbered(patches))
    IN  IF \A i \in 1..Len(normalized) : validatePatchInfo(normalized[i])
        THEN normalized
        ELSE current

\* SynthBank::addPatch
addPatch(current, patch) ==
    IF validatePatchInfo(patch) THEN Append(current, patch) ELSE current

\* the positions of current that hold no patch
emptyPositions(current) == {i \in 1..Len(current) : current[i].patch = nullptr}

\* SynthBank::fillWithPatch: the list and the dirty positions afterwards
fillWithPatch(current, dirty, initPatch) ==
    LET copy == [i \in 1..Len(current) |->
                    IF current[i].patch = nullptr
                    THEN [initPatch EXCEPT !.bank = current[i].bank,
                                           !.program = current[i].program,
                                           !.programBank = current[i].programBank]
                    ELSE current[i]]
        modified == emptyPositions(current) # {}
    IN  [patches |-> IF modified THEN setPatches(current, copy) ELSE current,
         dirty |-> dirty \cup {current[i].program : i \in emptyPositions(current)}]

\* PatchHolder::md5 calls Synth::calculateFingerprint, which reads the bytes
\* of the patch: of a holder without patch it reads through a null pointer
md5IsDefined(holder) == holder.patch # nullptr

\* what the comparison of updatePatchAtPosition can come to
Compared(old, patch) ==
    IF md5IsDefined(old) /\ md5IsDefined(patch)
    THEN {IF old.patch # patch.patch \/ old.name # patch.name THEN "differs" ELSE "same"}
    ELSE {"differs", "same", "crash"}

\* SynthBank::updatePatchAtPosition, position counted from 0
updatePatchAtPosition(current, dirty, position, patch, compared) ==
    IF position < Len(current)
    THEN [patches |-> setPatches(current, [current EXCEPT ![position + 1] = patch]),
          dirty |-> IF compared = "differs" THEN dirty \cup {position} ELSE dirty]
    ELSE [patches |-> current, dirty |-> dirty]

\* SynthBank::changePatchAtPosition
changePatchAtPosition(current, dirty, position, patch, compared) ==
    LET updated == updatePatchAtPosition(current, dirty, position, patch, compared)
    IN  IF position < Len(updated.patches)
        THEN fillWithPatch(updated.patches, updated.dirty, patch)
        ELSE updated

\* the loop that lets a patch of another synth take its position
RECURSIVE copyLoopCountingAll(_, _, _, _, _, _, _)
copyLoopCountingAll(currentList, dirty, skipped, listToCopy, bound, read_pos, write_pos) ==
    IF write_pos < bound /\ read_pos < Len(listToCopy)
    THEN IF listToCopy[read_pos + 1].synth = synth_
         THEN copyLoopCountingAll([currentList EXCEPT ![write_pos + 1] = listToCopy[read_pos + 1]],
                       dirty \cup {write_pos}, skipped, listToCopy, bound,
                       read_pos + 1, write_pos + 1)
         ELSE copyLoopCountingAll(currentList, dirty, skipped + 1, listToCopy, bound,
                       read_pos + 1, write_pos + 1)
    ELSE [patches |-> currentList, dirty |-> dirty, skipped |-> skipped]

\* copyListToPosition, the loop: the list, the dirty positions and the number
\* of patches skipped (each is logged) when read_pos and write_pos are where
\* they are
RECURSIVE copyLoop(_, _, _, _, _, _, _)
copyLoop(currentList, dirty, skipped, listToCopy, bound, read_pos, write_pos) ==
    IF write_pos < bound /\ read_pos < Len(listToCopy)
    THEN IF listToCopy[read_pos + 1].synth = synth_
         THEN copyLoop([currentList EXCEPT ![write_pos + 1] = listToCopy[read_pos + 1]],
                       dirty \cup {write_pos}, skipped, listToCopy, bound,
                       read_pos + 1, write_pos + 1)
         ELSE copyLoop(currentList, dirty, skipped + 1, listToCopy, bound,
                       read_pos + 1, write_pos)
    ELSE [patches |-> currentList, dirty |-> dirty, skipped |-> skipped]

\* SynthBank::copyListToPosition, position counted from 0
copyListToPosition(current, dirty, position, list) ==
    IF position < Len(current)
    THEN LET bound == IF Len(current) < position + Len(list)
                      THEN Len(current) ELSE position + Len(list)
             copied == copyLoop(current, dirty, 0, list, bound, 0, position)
         IN  [patches |-> setPatches(current, copied.patches), dirty |-> copied.dirty,
              skipped |-> copied.skipped]
    ELSE [patches |-> current, dirty |-> dirty, skipped |-> 0]

\* a call, and the patches it logged as skipped
Call(op, skipped) == [op |-> op, skipped |-> skipped]

\* what a call was handed and what the bank held when it was made
TraceOf(position, list) ==
    [traced |-> TRUE, position |-> position, list |-> list,
     before |-> [patches |-> patches_, dirty |-> dirtyPositions_]]
NoTrace ==
    [traced |-> FALSE, position |-> 0, list |-> <<>>,
     before |-> [patches |-> <<>>, dirty |-> {}]]

\* SynthBank::SynthBank: a list without patches, nothing dirty
InitSynthBankIdle ==
    /\ patches_ = <<>> /\ dirtyPositions_ = {}
    /\ bankCall = Call("none", 0) /\ bankOps = 0
    /\ bankTrace = NoTrace

\* a call returns: what the bank holds afterwards, and which call it was
BankReturns(result, call, trace) ==
    /\ bankOps < MaxBankOps
    /\ bankCall.op # "crash"
    /\ patches_' = result.patches
    /\ dirtyPositions_' = result.dirty
    /\ bankCall' = Call(call, IF "skipped" \in DOMAIN result THEN result.skipped ELSE 0)
    /\ bankOps' = bankOps + 1
    /\ bankTrace' = trace
    /\ UNCHANGED <<libVars, dispVars, coVars, extButSynthBank>>

\* the call read through a null pointer and the program ended
BankCrashes ==
    /\ bankOps < MaxBankOps
    /\ bankCall.op # "crash"
    /\ bankCall' = Call("crash", 0)
    /\ bankOps' = bankOps + 1
    /\ UNCHANGED <<libVars, dispVars, coVars, extButSynthBank, patches_, dirtyPositions_, bankTrace>>

\* bank.setPatches(patches)
SetPatches(patches) ==
    BankReturns([patches |-> setPatches(patches_, patches), dirty |-> dirtyPositions_],
                "setPatches", bankTrace)

\* bank.addPatch(patch)
AddPatch(patch) ==
    BankReturns([patches |-> addPatch(patches_, patch), dirty |-> dirtyPositions_],
                "addPatch", bankTrace)

\* bank.fillWithPatch(initPatch)
FillWithPatch(initPatch) ==
    BankReturns(fillWithPatch(patches_, dirtyPositions_, initPatch), "fillWithPatch", bankTrace)

\* bank.updatePatchAtPosition(programPlace, patch)
UpdatePatchAtPosition(position, patch) ==
    IF position < Len(patches_)
    THEN \E compared \in Compared(patches_[position + 1], patch) :
            IF compared = "crash" THEN BankCrashes
            ELSE BankReturns(updatePatchAtPosition(patches_, dirtyPositions_, position, patch, compared),
                             "updatePatchAtPosition", bankTrace)
    ELSE BankReturns([patches |-> patches_, dirty |-> dirtyPositions_], "updatePatchAtPosition", bankTrace)

\* bank.changePatchAtPosition(programPlace, patch)
ChangePatchAtPosition(position, patch) ==
    IF position < Len(patches_)
    THEN \E compared \in Compared(patches_[position + 1], patch) :
            IF compared = "crash" THEN BankCrashes
            ELSE BankReturns(changePatchAtPosition(patches_, dirtyPositions_, position, patch, compared),
                             "changePatchAtPosition", bankTrace)
    ELSE BankReturns([patches |-> patches_, dirty |-> dirtyPositions_], "changePatchAtPosition", bankTrace)

\* bank.copyListToPosition(programPlace, list)
CopyListToPosition(position, list) ==
    BankReturns(copyListToPosition(patches_, dirtyPositions_, position, list),
                "copyListToPosition", bankTrace)

\* bank.clearDirty()
ClearDirty ==
    BankReturns([patches |-> patches_, dirty |-> {}], "clearDirty", bankTrace)

\* the one call bank.setPatches(patches) on a bank, what it was handed kept
SetPatchesOnce(patches) ==
    /\ bankCall.op = "none"
    /\ BankReturns([patches |-> setPatches(patches_, patches), dirty |-> dirtyPositions_],
                   "setPatches", TraceOf(0, patches))

\* the one call bank.copyListToPosition(programPlace, list) on a bank, what
\* it was handed kept
CopyListToPositionOnce(position, list) ==
    /\ bankCall.op = "none"
    /\ BankReturns(copyListToPosition(patches_, dirtyPositions_, position, list),
                   "copyListToPosition", TraceOf(position, list))

\* PatchList, the class SynthBank is derived from: a plain list of holders
\* that have a patch.  PatchHolder::md5 is the fingerprint the synth of the
\* holder makes of the bytes of its patch.
PatchListHolders == {holder \in GivenHolders : holder.patch # nullptr}
holderMd5(holder) == calculateFingerprint(0, holder.patch)

\* a list that takes a new patch in at its front
push_front(current, patch) == <<patch>> \o current

\* PatchList::addPatch: patches_.push_back(patch)
push_back(current, patch) == Append(current, patch)

\* an insertion that takes every entry of the same fingerprint for a duplicate
insertPatchAtTopAndRemoveSameMd5(current, patch) ==
    <<patch>> \o SelectSeq(current, LAMBDA listEntry : holderMd5(listEntry) # holderMd5(patch))

\* PatchList::insertPatchAtTopAndRemoveDuplicates
insertPatchAtTopAndRemoveDuplicates(current, patch) ==
    <<patch>> \o SelectSeq(current, LAMBDA listEntry :
                    ~(listEntry.synth = patch.synth /\ holderMd5(listEntry) = holderMd5(patch)))

\* list.setPatches(patches) on a new PatchList: patches_ = patches
PatchListSetPatches(patches) ==
    /\ bankCall.op = "none"
    /\ BankReturns([patches |-> patches, dirty |-> dirtyPositions_],
                   "PatchList::setPatches", TraceOf(0, patches))

\* list.addPatch(patch), after the setPatches; the trace keeps what the two
\* calls were handed
PatchListAddPatch(patch) ==
    /\ bankCall.op = "PatchList::setPatches"
    /\ BankReturns([patches |-> push_back(patches_, patch), dirty |-> dirtyPositions_],
                   "PatchList::addPatch", TraceOf(0, Append(bankTrace.list, patch)))

\* list.insertPatchAtTopAndRemoveDuplicates(patch), after the setPatches
InsertPatchAtTopAndRemoveDuplicates(patch) ==
    /\ bankCall.op = "PatchList::setPatches"
    /\ BankReturns([patches |-> insertPatchAtTopAndRemoveDuplicates(patches_, patch),
                    dirty |-> dirtyPositions_],
                   "PatchList::insertPatchAtTopAndRemoveDuplicates", TraceOf(0, <<patch>>))

(***************************************************************************)
(* PatchInterchangeFormat: save writes a list of holders as a JSON         *)
(* document, load reads a document back into holders.  A JSON value is a   *)
(* record of its type and content, an object is a function of its keys, so *)
(* that contains() is membership in DOMAIN.                                *)
(***************************************************************************)
JString(s) == [t |-> "string", s |-> s]
JNumber(n) == [t |-> "number", n |-> n]
JNull == [t |-> "null"]
JArray(a) == [t |-> "array", a |-> a]
JObject(o) == [t |-> "object", o |-> o]
NoMember == <<>>

kPIF == "PatchInterchangeFormat"
PifSynth == "TestSynth"
activeSynths == {PifSynth}
\* the categories of the detector's loaded rules
loadedRules == {"Pad", "SFX", "Bell", "Lead"}
PifData == {1, 2}

\* the patch data of a holder carries the name the synth stored in it; the
\* rules of the detector match that name
determineAutomaticCategories(data) == IF data = 1 THEN {"Pad"} ELSE {}

\* JsonSerialization::dataToString and Base64::convertFromBase64
dataToString(data) == IF data = 1 THEN "AQ==" ELSE "Ag=="
convertFromBase64(encoded) ==
    CASE encoded = "AQ==" -> [ok |-> TRUE, data |-> 1]
      [] encoded = "Ag==" -> [ok |-> TRUE, data |-> 2]
      [] OTHER -> [ok |-> FALSE, data |-> nullptr]

\* MidiBankNumber, valid or not
InvalidBank == [valid |-> FALSE, number |-> 0]
ValidBank(number) == [valid |-> TRUE, number |-> number]

\* the SourceInfo of a holder and its JSON form (toString, fromString)
NoSourceInfo == [kind |-> "none"]
FromFileSource(filename, program) == [kind |-> "file", filename |-> filename, program |-> program]
FromSynthSource(bank) == [kind |-> "synth", bank |-> bank]
SourceInfoToString(sourceInfo) ==
    IF sourceInfo.kind = "file"
    THEN [filesource |-> TRUE, filename |-> sourceInfo.filename, programNo |-> sourceInfo.program]
    ELSE IF sourceInfo.bank.valid
         THEN [synthsource |-> TRUE, banknumber |-> sourceInfo.bank.number]
         ELSE [synthsource |-> TRUE]
SourceInfoFromString(json) ==
    IF "synthsource" \in DOMAIN json
    THEN FromSynthSource(IF "banknumber" \in DOMAIN json
                         THEN ValidBank(json.banknumber) ELSE InvalidBank)
    ELSE IF "filesource" \in DOMAIN json
         THEN FromFileSource(json.filename, json.programNo)
         ELSE NoSourceInfo

\* a PatchHolder as the interchange format sees it
PifHolder(synth, data, name, favorite, bank, program, categories, userDecisions,
          sourceInfo, comment, author, info) ==
    [synth |-> synth, data |-> data, name |-> name, favorite |-> favorite,
     bank |-> bank, program |-> program, categories |-> categories,
     userDecisions |-> userDecisions, sourceInfo |-> sourceInfo,
     comment |-> comment, author |-> author, info |-> info]

\* the order in which a std::set of categories is written
RECURSIVE categoryList(_)
categoryList(categories) ==
    IF categories = {} THEN <<>>
    ELSE LET cat == CHOOSE c \in categories : TRUE
         IN  <<JString(cat)>> \o categoryList(categories \ {cat})

\* PatchInterchangeFormat::save, the entry of one patch
patchJson(patch) ==
    LET userDefinedCategories == patch.categories \cap patch.userDecisions
        userDefinedNonCategories == patch.userDecisions \ patch.categories
    IN  [Synth |-> JString(patch.synth),
         Name |-> JString(patch.name),
         Favorite |-> CASE patch.favorite = "YES" -> JNumber(1)
                        [] patch.favorite = "NO" -> JNumber(0)
                        [] OTHER -> JNull,
         Place |-> JNumber(patch.program),
         Sysex |-> JString(dataToString(patch.data))]
        @@ (IF patch.bank.valid THEN [Bank |-> JNumber(patch.bank.number)] ELSE NoMember)
        @@ (IF userDefinedCategories # {}
            THEN [Categories |-> JArray(categoryList(userDefinedCategories))] ELSE NoMember)
        @@ (IF userDefinedNonCategories # {}
            THEN [NonCategories |-> JArray(categoryList(userDefinedNonCategories))]
            ELSE NoMember)
        @@ (IF patch.sourceInfo # NoSourceInfo
            THEN [SourceInfo |-> JObject(SourceInfoToString(patch.sourceInfo))] ELSE NoMember)
        @@ (IF patch.comment # "" THEN [Comment |-> JString(patch.comment)] ELSE NoMember)

\* PatchInterchangeFormat::save
save(patches) ==
    [Header |-> [FileFormat |-> kPIF, Version |-> 1],
     Library |-> [i \in 1..Len(patches) |-> patchJson(patches[i])]]

\* findCategory: two categories of old files are renamed, then the name is
\* looked up in the rules of the detector
findCategory(categoryName) ==
    LET renamed == CASE categoryName = "Bells" -> "Bell"
                     [] categoryName = "FX" -> "SFX"
                     [] OTHER -> categoryName
    IN  IF renamed \in loadedRules THEN {renamed} ELSE {}

\* the entries of a category array are read with get<std::string>()
categoriesAreStrings(item, key) ==
    key \in DOMAIN item /\ item[key].t = "array"
        => \A i \in 1..Len(item[key].a) : item[key].a[i].t = "string"
categoriesFound(item, key) ==
    IF key \in DOMAIN item /\ item[key].t = "array"
    THEN UNION {findCategory(item[key].a[i].s) : i \in 1..Len(item[key].a)}
    ELSE {}

\* std::stoi of the strings the documents of the model hold
stoi(str) ==
    CASE str = "1" -> [ok |-> TRUE, value |-> 1]
      [] str = "0" -> [ok |-> TRUE, value |-> 0]
      [] OTHER -> [ok |-> FALSE, value |-> 0]
\* a member that is a number, or a string that std::stoi converts
readAsInt(item, key) ==
    IF key \notin DOMAIN item THEN [ok |-> FALSE, value |-> 0]
    ELSE IF item[key].t = "number" THEN [ok |-> TRUE, value |-> item[key].n]
         ELSE stoi(item[key].s)

\* the file the document is loaded from becomes the source of its holders
invalidProgram == [valid |-> FALSE]
fileSource == FromFileSource("library.json", invalidProgram)

\* a value that is read as a number, or as a string holding a number
throwsReadAsInt(item, key) ==
    key \in DOMAIN item /\ item[key].t \notin {"number", "string"}

\* PatchInterchangeFormat::load, one pass of the loop over the entries:
\* "skipped" continues with the next entry, "thrown" is a
\* nlohmann::json::exception, which is caught outside the loop
loadItem(item) ==
    LET Skipped == [outcome |-> "skipped"]
        Thrown == [outcome |-> "thrown"]
        sysex == convertFromBase64(item.Sysex.s)
        fav == IF "Favorite" \notin DOMAIN item THEN "DONTKNOW"
               ELSE CASE item.Favorite.t = "number" ->
                             IF item.Favorite.n # 0 THEN "YES" ELSE "NO"
                      [] item.Favorite.t = "null" -> "DONTKNOW"
                      [] OTHER -> IF ~stoi(item.Favorite.s).ok THEN "DONTKNOW"
                                  ELSE IF stoi(item.Favorite.s).value # 0 THEN "YES"
                                       ELSE "NO"
        bank == IF readAsInt(item, "Bank").ok
                THEN ValidBank(readAsInt(item, "Bank").value) ELSE InvalidBank
        place == IF readAsInt(item, "Place").ok
                 THEN readAsInt(item, "Place").value ELSE invalidProgram
        categories == categoriesFound(item, "Categories")
        nonCategories == categoriesFound(item, "NonCategories")
        importInfo == IF "SourceInfo" \in DOMAIN item
                      THEN SourceInfoFromString(item.SourceInfo.o) ELSE NoSourceInfo
        comment == IF "Comment" \in DOMAIN item THEN item.Comment.s ELSE ""
    IN  CASE "Synth" \notin DOMAIN item -> Skipped
          [] item.Synth.t # "string" -> Thrown
          [] item.Synth.s \notin activeSynths -> Skipped
          [] "Name" \notin DOMAIN item -> Skipped
          [] item.Name.t # "string" -> Thrown
          [] "Sysex" \notin DOMAIN item -> Skipped
          [] "Favorite" \in DOMAIN item
               /\ item.Favorite.t \notin {"number", "null", "string"} -> Thrown
          [] throwsReadAsInt(item, "Bank") \/ throwsReadAsInt(item, "Place") -> Thrown
          [] ~categoriesAreStrings(item, "Categories")
               \/ ~categoriesAreStrings(item, "NonCategories") -> Thrown
          [] "Comment" \in DOMAIN item /\ item.Comment.t # "string" -> Thrown
          [] item.Sysex.t # "string" -> Thrown
          [] ~sysex.ok -> Skipped
          [] OTHER ->
               [outcome |-> "loaded",
                holder |-> PifHolder(item.Synth.s, sysex.data, item.Name.s, fav, bank, place,
                                     determineAutomaticCategories(sysex.data) \cup categories,
                                     categories \cup nonCategories,
                                     IF importInfo # NoSourceInfo THEN importInfo
                                     ELSE fileSource,
                                     comment, "", "")]

RECURSIVE loadLoop(_, _, _)
loadLoop(patchArray, item, result) ==
    IF item > Len(patchArray) THEN result
    ELSE LET loaded == loadItem(patchArray[item])
         IN  CASE loaded.outcome = "thrown" -> result
               [] loaded.outcome = "skipped" -> loadLoop(patchArray, item + 1, result)
               [] OTHER -> loadLoop(patchArray, item + 1, Append(result, loaded.holder))

\* PatchInterchangeFormat::load
load(jsonDoc) ==
    IF "Header" \notin DOMAIN jsonDoc \/ jsonDoc.Header.FileFormat # kPIF
    THEN <<>>
    ELSE IF "Library" \in DOMAIN jsonDoc THEN loadLoop(jsonDoc.Library, 1, <<>>) ELSE <<>>

NoDocument == [Header |-> [FileFormat |-> "none", Version |-> 0]]

InitInterchangeIdle ==
    /\ savedPatches = <<>> /\ document = NoDocument /\ loadedPatches = <<>>
    /\ pifPc = "start"

\* save(patches, toFilename)
Save(patches) ==
    /\ pifPc = "start"
    /\ savedPatches' = patches
    /\ document' = save(patches)
    /\ pifPc' = "saved"
    /\ UNCHANGED <<loadedPatches, libVars, dispVars, coVars, extButInterchange>>

\* a document written by another program or by hand
WriteDocument(library) ==
    /\ pifPc = "start"
    /\ document' = [Header |-> [FileFormat |-> kPIF, Version |-> 1], Library |-> library]
    /\ pifPc' = "written"
    /\ UNCHANGED <<savedPatches, loadedPatches, libVars, dispVars, coVars, extButInterchange>>

\* load(activeSynths, filename, detector)
Load ==
    /\ pifPc \in {"saved", "written"}
    /\ loadedPatches' = load(document)
    /\ pifPc' = IF pifPc = "saved" THEN "reloaded" ELSE "loaded"
    /\ UNCHANGED <<savedPatches, document, libVars, dispVars, coVars, extButInterchange>>

(***************************************************************************)
(* The categories of a catalog: the table categories (bitIndex INTEGER     *)
(* UNIQUE, name, color, active, sort_order) and the three operations that  *)
(* read and write it.                                                      *)
(***************************************************************************)
CategoryDefinition(id, name, isActive) == [bitIndex |-> id, name |-> name, active |-> isActive]
bitIndices(table) == {row.bitIndex : row \in table}
MaxOf(numbers) == CHOOSE n \in numbers : \A other \in numbers : other <= n

\* SELECT MAX(bitIndex) + 1: NULL, read as 0, for an empty table
getNextBitindex(table) ==
    LET next == IF table = {} THEN 0 ELSE MaxOf(bitIndices(table)) + 1
    IN  IF next < MaxCategories THEN next ELSE -1
\* the same without the limit
getNextBitindexUnlimited(table) ==
    IF table = {} THEN 0 ELSE MaxOf(bitIndices(table)) + 1

\* updateCategories, one definition: UPDATE of the row with its bit index,
\* INSERT when there is none
updateCategory(table, c) ==
    IF c.bitIndex \in bitIndices(table)
    THEN {IF row.bitIndex = c.bitIndex THEN c ELSE row : row \in table}
    ELSE table \cup {c}
RECURSIVE updateCategories(_, _)
updateCategories(table, newdefs) ==
    IF newdefs = <<>> THEN table
    ELSE updateCategories(updateCategory(table, Head(newdefs)), Tail(newdefs))

\* CategoryBitfield::maxBitIndex of the bitfield getCategories builds from
\* the active definitions
maxBitIndex(table) ==
    LET active == {row.bitIndex : row \in {r \in table : r.active}}
    IN  IF active = {} THEN -1 ELSE MaxOf(active)

\* getCategorizer: a rule whose category is not in the table is to get a
\* row, INSERT INTO categories VALUES (:BIT, :NAM, :COL, 1).  The table has
\* five columns, so SQLite refuses the statement, the SQLite::Exception
\* leaves getCategorizer and the transaction is rolled back.
getCategorizer(table, loadedRules_) ==
    LET missing == loadedRules_ \ {row.name : row \in table}
    IN  IF missing = {} THEN "returned"
        ELSE IF maxBitIndex(table) < MaxCategories THEN "SQLite::Exception"
             ELSE "returned without the rules"

InitCategoriesIdle ==
    /\ categoriesTable = {} /\ maxbitindex = 0 /\ categorizer = "none" /\ categoryOps = 0

GetNextBitindex ==
    /\ categoryOps < MaxCategoryOps
    /\ categoryOps' = categoryOps + 1
    /\ maxbitindex' = getNextBitindex(categoriesTable)
    /\ UNCHANGED <<categoriesTable, categorizer, libVars, dispVars, coVars, extButCategories>>

UpdateCategories(newdefs) ==
    /\ categoryOps < MaxCategoryOps
    /\ categoryOps' = categoryOps + 1
    /\ categoriesTable' = updateCategories(categoriesTable, newdefs)
    /\ UNCHANGED <<maxbitindex, categorizer, libVars, dispVars, coVars, extButCategories>>

GetCategorizer(loadedRules_) ==
    /\ categoryOps < MaxCategoryOps
    /\ categoryOps' = categoryOps + 1
    /\ categorizer' = getCategorizer(categoriesTable, loadedRules_)
    /\ UNCHANGED <<categoriesTable, maxbitindex, libVars, dispVars, coVars, extButCategories>>

(***************************************************************************)
(* Opening a catalog: createSchema makes the tables and indexes that are   *)
(* missing, reads the stored schema version and has migrateSchema take an  *)
(* older catalog to SCHEMA_VERSION step by step.  The catalog file is what *)
(* a copy of it would hold: the stored version, the migration steps that   *)
(* have changed it, whether the indexes of createSchema are there, and    *)
(* the tables and columns ("table.column") that CREATE TABLE and ALTER     *)
(* TABLE statements ask for.                                               *)
(***************************************************************************)
NoVersion == -1
MigrationSteps == 2..SCHEMA_VERSION

\* the tables and columns a block of migrateSchema adds to a catalog that
\* createSchema found complete
AddedBy(step) ==
    CASE step = 2 -> {"patches.hidden"}
      [] step = 3 -> {"patches.type"}
      [] step = 5 -> {"patches.midiBankNo"}
      [] step = 6 -> {"categories"}
      [] step = 7 -> {"lists", "patch_in_list"}
      [] step = 8 -> {"lists.synth", "lists.midi_bank_number", "lists.last_synced"}
      [] step = 13 -> {"patches.comment"}
      [] step = 14 -> {"patches.author", "patches.info"}
      [] step = 15 -> {"categories.sort_order"}
      [] step = 16 -> {"patches.regular"}
      [] step = 17 -> {"lists.list_type"}
      [] OTHER -> {}

\* createPatchTableLegacy and createPatchTable: the patches table they make
LegacyPatchTable ==
    {"patches", "patches.type", "patches.regular", "patches.hidden", "patches.sourceID",
     "patches.midiBankNo", "patches.comment", "patches.author", "patches.info"}
PatchTable == LegacyPatchTable \ {"patches.sourceID"}

\* what a catalog of a schema version holds: the patches table of version 1,
\* with the sourceID that version 18 removes, and what the versions up to
\* its own have added
ColumnsAt(number) ==
    IF number = NoVersion THEN {}
    ELSE IF number >= 18 THEN PatchTable \cup UNION {AddedBy(step) : step \in MigrationSteps}
    ELSE {"patches", "patches.sourceID"}
             \cup UNION {AddedBy(step) : step \in {m \in MigrationSteps : m <= number}}

CatalogFile(number, indexes) ==
    [number |-> number, migrated |-> {}, indexes |-> indexes, columns |-> ColumnsAt(number)]

\* createSchema, the tables: each is made in full where it is missing
createTables(columns) ==
    columns
        \cup (IF "patches" \in columns THEN {} ELSE PatchTable)
        \cup (IF "categories" \in columns THEN {} ELSE {"categories", "categories.sort_order"})
        \cup (IF "lists" \in columns THEN {}
              ELSE {"lists", "lists.synth", "lists.midi_bank_number", "lists.last_synced",
                    "lists.list_type"})
        \cup {"patch_in_list"}

\* ALTER TABLE ... ADD COLUMN, one after the other: SQLite refuses a column
\* the table has
RECURSIVE addColumns(_, _)
addColumns(columns, added) ==
    IF added = <<>> THEN [ok |-> TRUE, columns |-> columns]
    ELSE IF Head(added) \in columns THEN [ok |-> FALSE, columns |-> columns]
    ELSE addColumns(columns \cup {Head(added)}, Tail(added))

\* the same in try { } catch (SQLite::Exception&): what was added stays
addColumnsCaught(columns, added) == [ok |-> TRUE, columns |-> addColumns(columns, added).columns]

\* migrateTable("patches", create_new_table, column_list): the columns
\* listed are copied from the renamed table, which has to have them
migrateTable(columns, newTable, column_list) ==
    IF column_list \subseteq columns
    THEN [ok |-> TRUE, columns |-> {c \in columns : c \notin LegacyPatchTable} \cup newTable]
    ELSE [ok |-> FALSE, columns |-> columns]

\* the statements of the block "if (currentVersion < step)" of migrateSchema
\* on the tables; hasRecreatedPatchTable is set by the block of version 9
statementsOf(step, columns, hasRecreatedPatchTable) ==
    CASE step = 2 -> addColumns(columns, <<"patches.hidden">>)
      [] step = 3 -> addColumns(columns, <<"patches.type">>)
      [] step = 5 -> addColumns(columns, <<"patches.midiBankNo">>)
      [] step = 6 -> \* insertDefaultCategories has five values for four columns
                     [ok |-> "categories" \in columns, columns |-> columns]
      [] step = 7 -> [ok |-> TRUE, columns |-> columns \cup {"lists", "patch_in_list"}]
      [] step = 8 -> addColumnsCaught(columns, <<"lists.synth", "lists.midi_bank_number",
                                                "lists.last_synced">>)
      [] step = 9 -> migrateTable(columns, LegacyPatchTable,
                                  {"patches.hidden", "patches.type", "patches.midiBankNo",
                                   "patches.sourceID"})
      [] step = 13 -> IF hasRecreatedPatchTable THEN [ok |-> TRUE, columns |-> columns]
                      ELSE addColumns(columns, <<"patches.comment">>)
      [] step = 14 -> IF hasRecreatedPatchTable THEN [ok |-> TRUE, columns |-> columns]
                      ELSE addColumns(columns, <<"patches.author", "patches.info">>)
      [] step = 15 -> addColumns(columns, <<"categories.sort_order">>)
      [] step = 16 -> addColumns(columns, <<"patches.regular">>)
      [] step = 17 -> addColumnsCaught(columns, <<"lists.list_type">>)
      [] step = 18 -> IF "patches.sourceID" \in columns
                      THEN migrateTable(columns, PatchTable,
                                        {"patches.type", "patches.regular", "patches.hidden",
                                         "patches.midiBankNo", "patches.comment",
                                         "patches.author", "patches.info"})
                      ELSE [ok |-> TRUE, columns |-> columns]
      [] OTHER -> [ok |-> TRUE, columns |-> columns]

\* db_.backup to a file that does not exist yet
makeDatabaseBackup(copies, file) == Append(copies, file)

\* backupIfNecessary(done), without the flag that says it is done
backupWheneverAsked(copies, file, done, mode) ==
    IF mode = "READ_WRITE"
    THEN [copies |-> makeDatabaseBackup(copies, file), done |-> FALSE]
    ELSE [copies |-> copies, done |-> done]

\* backupIfNecessary(done)
backupIfNecessary(copies, file, done, mode) ==
    IF ~done /\ mode = "READ_WRITE"
    THEN [copies |-> makeDatabaseBackup(copies, file), done |-> TRUE]
    ELSE [copies |-> copies, done |-> done]

\* the exception the constructor of PatchDatabase makes of a SQLite::Exception
PatchDatabaseExceptionOf(errorCode) ==
    IF errorCode = "SQLITE_READONLY" THEN "PatchDatabaseReadonlyException"
    ELSE "PatchDatabaseException"

InitSchemaIdle ==
    /\ catalogFile = CatalogFile(SCHEMA_VERSION, TRUE) /\ beforeMigration = <<>>
    /\ fileAtOpen = catalogFile
    /\ mode_ = "READ_WRITE" /\ currentVersion = SCHEMA_VERSION /\ hasBackuped = FALSE
    /\ openPc = "open" /\ thrown = "none"

\* createSchema up to the call of migrateSchema
CreateSchema ==
    /\ openPc = "constructing"
    /\ UNCHANGED <<fileAtOpen, beforeMigration, mode_, hasBackuped>>
    /\ UNCHANGED <<libVars, dispVars, coVars, extButSchema>>
    /\ IF mode_ = "READ_ONLY"
            /\ (~catalogFile.indexes \/ createTables(catalogFile.columns) # catalogFile.columns)
       THEN \* CREATE TABLE or CREATE INDEX on a catalog opened read-only
            /\ thrown' = PatchDatabaseExceptionOf("SQLITE_READONLY")
            /\ openPc' = "failed"
            /\ UNCHANGED <<catalogFile, currentVersion>>
       ELSE LET created == [catalogFile EXCEPT !.indexes = TRUE,
                                                !.columns = createTables(@)]
                version == created.number
            IN  CASE version = NoVersion ->
                       /\ catalogFile' = [created EXCEPT !.number = SCHEMA_VERSION]
                       /\ openPc' = "open"
                       /\ UNCHANGED <<currentVersion, thrown>>
                  [] version # NoVersion /\ version < SCHEMA_VERSION ->
                       /\ catalogFile' = created
                       /\ currentVersion' = version
                       /\ openPc' = "migrating"
                       /\ UNCHANGED thrown
                  [] version > SCHEMA_VERSION ->
                       /\ catalogFile' = created
                       /\ thrown' = PatchDatabaseExceptionOf("SQLite::Exception(message)")
                       /\ openPc' = "failed"
                       /\ UNCHANGED currentVersion
                  [] OTHER ->
                       /\ catalogFile' = created
                       /\ openPc' = "open"
                       /\ UNCHANGED <<currentVersion, thrown>>

\* the next block of migrateSchema that applies
nextStep == CHOOSE step \in MigrationSteps :
                /\ currentVersion < step /\ step \notin catalogFile.migrated
                /\ \A earlier \in MigrationSteps :
                       earlier < step => ~(currentVersion < earlier) \/ earlier \in catalogFile.migrated
stepsLeft == \E step \in MigrationSteps : currentVersion < step /\ step \notin catalogFile.migrated

\* migrateSchema, one block "if (currentVersion < step)": the copy, then the
\* statements of the step, which SQLite may refuse for what the tables are
\* or for what the file system is; the transaction of a block that throws is
\* rolled back
MigrateStep(refused) ==
    /\ openPc = "migrating" /\ stepsLeft
    /\ LET backup == backupIfNecessary(beforeMigration, catalogFile, hasBackuped, mode_)
       IN  /\ beforeMigration' = backup.copies
           /\ hasBackuped' = backup.done
    /\ UNCHANGED <<fileAtOpen, mode_, currentVersion>>
    /\ UNCHANGED <<libVars, dispVars, coVars, extButSchema>>
    /\ LET applied == statementsOf(nextStep, catalogFile.columns, currentVersion < 9)
       IN  IF mode_ = "READ_ONLY" \/ refused \/ ~applied.ok
           THEN /\ thrown' = PatchDatabaseExceptionOf(IF mode_ = "READ_ONLY"
                                                      THEN "SQLITE_READONLY"
                                                      ELSE "SQLITE_ERROR")
                /\ openPc' = "failed"
                /\ UNCHANGED catalogFile
           ELSE /\ catalogFile' = [catalogFile EXCEPT !.number = nextStep,
                                                      !.migrated = @ \cup {nextStep},
                                                      !.columns = applied.columns]
                /\ UNCHANGED <<openPc, thrown>>

\* migrateSchema returns, and createSchema and the constructor with it
Migrated ==
    /\ openPc = "migrating" /\ ~stepsLeft
    /\ openPc' = "open"
    /\ UNCHANGED <<catalogFile, fileAtOpen, beforeMigration, mode_, currentVersion, hasBackuped, thrown>>
    /\ UNCHANGED <<libVars, dispVars, coVars, extButSchema>>

(***************************************************************************)
(* Librarian::sendBankToSynth for a synth with ProgramDumpCabability and   *)
(* without BankSendCapability: the patches of the bank are sent one by one *)
(* on the calling thread, while the user may press cancel in the progress  *)
(* window.  A patch is known by its position in the list of the bank.      *)
(***************************************************************************)
SendBankCall(size, dirtyPositions, fullBank, progressHandler) ==
    [size |-> size, dirtyPositions |-> dirtyPositions, fullBank |-> fullBank,
     progressHandler |-> progressHandler]

\* every position counts as dirty
isPositionDirtyAlways(dirtyPositions, position) == TRUE

\* SynthBank::isPositionDirty
isPositionDirty(dirtyPositions, position) == position \in dirtyPositions

\* sendBankToSynth, the condition of the loop: fullBank || isPositionDirty(i++)
isSent(call, i) == call.fullBank \/ isPositionDirty(call.dirtyPositions, i)

InitBankSendIdle ==
    /\ sendBankCall = SendBankCall(0, {}, FALSE, FALSE) /\ sendBankPc = "returned"
    /\ sendBankI = 0 /\ sentToSynth = <<>> /\ abortRequested = FALSE
    /\ finishedHandlerCalls = <<>>

\* one pass of the loop that sends: the patch is sent where the condition
\* holds, then the progress handler is asked whether to abort
SendNextPatch ==
    /\ sendBankPc = "sending" /\ sendBankI < sendBankCall.size
    /\ sentToSynth' = IF isSent(sendBankCall, sendBankI)
                      THEN Append(sentToSynth, sendBankI) ELSE sentToSynth
    /\ sendBankI' = sendBankI + 1
    /\ IF sendBankCall.progressHandler /\ abortRequested
       THEN /\ finishedHandlerCalls' = Append(finishedHandlerCalls, FALSE)
            /\ sendBankPc' = "returned"
       ELSE UNCHANGED <<finishedHandlerCalls, sendBankPc>>
    /\ UNCHANGED <<sendBankCall, abortRequested, libVars, dispVars, coVars, extButBankSend>>

\* the loop is through: finishedHandler(true)
SendBankFinished ==
    /\ sendBankPc = "sending" /\ sendBankI = sendBankCall.size
    /\ finishedHandlerCalls' = Append(finishedHandlerCalls, TRUE)
    /\ sendBankPc' = "returned"
    /\ UNCHANGED <<sendBankCall, sendBankI, sentToSynth, abortRequested,
                   libVars, dispVars, coVars, extButBankSend>>

\* the user cancels in the progress window, on the message thread
CancelBankSend ==
    /\ sendBankPc = "sending" /\ sendBankCall.progressHandler /\ ~abortRequested
    /\ abortRequested' = TRUE
    /\ UNCHANGED <<sendBankCall, sendBankPc, sendBankI, sentToSynth, finishedHandlerCalls,
                   libVars, dispVars, coVars, extButBankSend>>

(***************************************************************************)
(* SafeMidiOutput, the sends: every cadence hands the messages of the call *)
(* to midiOut_, if there is one, and leaves out the empty SysEx messages.  *)
(***************************************************************************)
MidiMessage(isSysEx, sysExDataSize) == [isSysEx |-> isSysEx, sysExDataSize |-> sysExDataSize]
EmptySysEx == MidiMessage(TRUE, 0)
NoAction == MidiMessage(FALSE, -1)

\* MidiHelpers::isEmptySysex
isEmptySysex(message) == message.isSysEx /\ message.sysExDataSize = 0
\* MidiHelpers::removeEmptySysexMessages
removeEmptySysexMessages(buffer) == SelectSeq(buffer, LAMBDA message : ~isEmptySysex(message))

\* midiOut_->sendMessageNow for every message there is
sendMessageNowUnfiltered(out, reached, message) ==
    IF out # nullptr THEN Append(reached, message) ELSE reached

\* SafeMidiOutput::sendMessageNow
sendMessageNow(out, reached, message) ==
    IF out # nullptr
    THEN IF ~(message.isSysEx /\ message.sysExDataSize = 0)
         THEN Append(reached, message)
         ELSE reached
    ELSE reached

\* sendBlockOfMessagesFullSpeed(MidiBuffer)
sendBlockOfMessagesFullSpeed(out, reached, buffer) ==
    IF out # nullptr THEN reached \o removeEmptySysexMessages(buffer) ELSE reached

\* the loop of sendBlockOfMessagesFullSpeed(vector) and of
\* sendBlockOfMessagesThrottled, which sleeps before each message it sends
RECURSIVE sendEachMessage(_, _, _)
sendEachMessage(out, reached, buffer) ==
    IF out = nullptr \/ buffer = <<>> THEN reached
    ELSE IF isEmptySysex(Head(buffer))
         THEN sendEachMessage(out, reached, Tail(buffer))
         ELSE sendEachMessage(out, Append(reached, Head(buffer)), Tail(buffer))

SendCall(cadence, buffer, before) == [cadence |-> cadence, buffer |-> buffer, before |-> before]

InitWireIdle ==
    /\ midiOut_ = nullptr /\ wire = <<>> /\ debouncedAction = NoAction
    /\ sendCall = SendCall("none", <<>>, 0) /\ sends = 0

Sends(reached, cadence, buffer) ==
    /\ sends < MaxSends
    /\ sends' = sends + 1
    /\ wire' = reached
    /\ sendCall' = SendCall(cadence, buffer, Len(wire))
    /\ UNCHANGED <<midiOut_, libVars, dispVars, coVars, extButWire>>

\* sendMessageNow(message)
SendNow(message) ==
    /\ Sends(sendMessageNow(midiOut_, wire, message), "immediate", <<message>>)
    /\ UNCHANGED debouncedAction

\* sendMessageDebounced(message, milliseconds): the debouncer keeps the action
\* of the last call and starts its timer anew
SendMessageDebounced(message) ==
    /\ Sends(wire, "debounced", <<message>>)
    /\ debouncedAction' = message

\* the timer of the debouncer fires and runs the action it keeps
DebouncerTimerCallback ==
    /\ debouncedAction # NoAction
    /\ wire' = sendMessageNow(midiOut_, wire, debouncedAction)
    /\ sendCall' = SendCall("timer", <<debouncedAction>>, Len(wire))
    /\ debouncedAction' = NoAction
    /\ UNCHANGED <<midiOut_, sends, libVars, dispVars, coVars, extButWire>>

\* sendBlockOfMessagesFullSpeed(MidiBuffer)
SendBlockOfMessagesFullSpeed(buffer) ==
    /\ Sends(sendBlockOfMessagesFullSpeed(midiOut_, wire, buffer), "full speed", buffer)
    /\ UNCHANGED debouncedAction

\* sendBlockOfMessagesFullSpeed(std::vector<MidiMessage>)
SendVectorOfMessagesFullSpeed(buffer) ==
    /\ Sends(sendEachMessage(midiOut_, wire, buffer), "full speed vector", buffer)
    /\ UNCHANGED debouncedAction

\* sendBlockOfMessagesThrottled(buffer, millisecondsWait)
SendBlockOfMessagesThrottled(buffer) ==
    /\ Sends(sendEachMessage(midiOut_, wire, buffer), "throttled", buffer)
    /\ UNCHANGED debouncedAction

(***************************************************************************)
(* MidiCoroutine: a protocol task whose body awaits incoming MIDI messages. *)
(* The handler registered by the constructor runs on the MIDI input thread *)
(* and resumes the coroutine; the thread started by                        *)
(* runMidiCoroutineWithCallback resumes it every 10 ms as well.  Neither   *)
(* the coroutine handle nor the queue is guarded, so the steps of the two  *)
(* threads interleave.                                                     *)
(***************************************************************************)
CoThreads == {"io", "worker"}
callbackHandle_ == 1
NoMessage == 0              \* the MidiMessageWithDevice {} await_resume returns on an empty queue

\* promise_type::incomingIsEmpty
incomingIsEmpty == incomingMessages_ = <<>>

\* promise_type::enqueueNextMessage
enqueueNextMessage(message) == Append(incomingMessages_, message)

\* where a thread goes when handle.resume() returns to it
AfterResume(t) == IF t = "io" THEN "idle" ELSE "check"

InitCoroutineIdle ==
    /\ incomingMessages_ = <<>> /\ arrived = 0
    /\ coPc = [t \in CoThreads |-> IF t = "io" THEN "idle" ELSE "finished"]
    /\ front = [t \in CoThreads |-> NoMessage]
    /\ awaited = 0 /\ coDone = FALSE /\ returned = <<>>

\* the coroutine was created and ran, initial_suspend being suspend_never, to its
\* first co_await, where it is suspended; its handler is registered; the worker
\* thread is about to call resume() for the first time
InitCoroutine ==
    /\ InitLibrarianWith("PROGRAM_BUFFERS", 1, -1, FALSE)
    /\ messageHandlers_ = {[handle |-> callbackHandle_, bankIdx |-> 0, bankNo |-> 0]}
    /\ nextHandle = callbackHandle_ + 1
    /\ InitDispatchIdle
    /\ InitOutputsIdle
    /\ InitCatalogIdle
    /\ InitInterchangeIdle
    /\ InitSchemaIdle
    /\ InitBankSendIdle
    /\ InitCategoriesIdle
    /\ InitWireIdle
    /\ InitDiscoveryIdle
    /\ InitSynthBankIdle
    /\ incomingMessages_ = <<>> /\ arrived = 0
    /\ coPc = [t \in CoThreads |-> IF t = "io" THEN "idle" ELSE "resume"]
    /\ front = [t \in CoThreads |-> NoMessage]
    /\ awaited = 0 /\ coDone = FALSE /\ returned = <<>>

\* a message arrives: MidiController calls the lambda of the constructor on the
\* input thread, which enqueues the message and is then about to resume
MessageArrives ==
    /\ coPc["io"] = "idle"
    /\ callbackHandle_ \in RegisteredHandles
    /\ arrived < MaxArrivals
    /\ arrived' = arrived + 1
    /\ incomingMessages_' = enqueueNextMessage(arrived + 1)
    /\ coPc' = [coPc EXCEPT !["io"] = "resume"]
    /\ UNCHANGED <<libVars, dispVars, extVars, front, awaited, coDone, returned>>

\* the other thread is executing the coroutine
RunningElsewhere(t) == \E u \in CoThreads \ {t} : coPc[u] \in {"await_resume", "pop"}

\* handle.resume() called by thread t: execution continues on t where the body
\* was suspended, in await_resume.  Resuming a coroutine that is at its final
\* suspend point, or that is not suspended, has no defined behaviour: the call
\* returns, goes on like any resume, or brings the process down.
Resume(t, outcome) ==
    /\ coPc[t] = "resume"
    /\ outcome \in IF coDone THEN {"returns", "crashes"}
                   ELSE IF RunningElsewhere(t) THEN {"continues", "crashes"}
                   ELSE {"continues"}
    /\ coPc' = CASE outcome = "returns" -> [coPc EXCEPT ![t] = AfterResume(t)]
                [] outcome = "continues" -> [coPc EXCEPT ![t] = "await_resume"]
                [] outcome = "crashes" -> [u \in CoThreads |-> "crashed"]
    /\ UNCHANGED <<libVars, dispVars, extVars, incomingMessages_, arrived, front, awaited, coDone,
                   returned>>

\* the value of the co_await is handed to the body, which runs on thread t up to
\* its next co_await or its co_return.  At the next co_await, await_suspend
\* suspends (resume() returns to t) if the queue is empty and goes on otherwise.
BodyGets(t, message, queue) ==
    /\ returned' = Append(returned, [message |-> message, thread |-> t])
    /\ awaited' = awaited + 1
    /\ coDone' = (awaited + 1 >= TaskAwaits)
    /\ coPc' = [coPc EXCEPT ![t] = IF awaited + 1 >= TaskAwaits \/ queue = <<>>
                                   THEN AfterResume(t) ELSE "await_resume"]

\* awaiter::await_resume on thread t: on an empty queue it returns {}, otherwise
\* it calls nextIncomingMessage, which first reads incomingMessages_.front()
AwaitResume(t) ==
    /\ coPc[t] = "await_resume"
    /\ IF coDone
       THEN /\ coPc' = [coPc EXCEPT ![t] = AfterResume(t)]
            /\ UNCHANGED <<front, awaited, coDone, returned>>
       ELSE IF incomingIsEmpty
       THEN /\ BodyGets(t, NoMessage, incomingMessages_)
            /\ UNCHANGED front
       ELSE /\ front' = [front EXCEPT ![t] = Head(incomingMessages_)]
            /\ coPc' = [coPc EXCEPT ![t] = "pop"]
            /\ UNCHANGED <<awaited, coDone, returned>>
    /\ UNCHANGED <<libVars, dispVars, extVars, incomingMessages_, arrived>>

\* nextIncomingMessage goes on with incomingMessages_.pop() and returns what it read
NextIncomingMessagePop(t) ==
    /\ coPc[t] = "pop"
    /\ LET queue == IF incomingIsEmpty THEN <<>> ELSE Tail(incomingMessages_)
       IN /\ incomingMessages_' = queue
          /\ IF coDone
             THEN /\ coPc' = [coPc EXCEPT ![t] = AfterResume(t)]
                  /\ UNCHANGED <<awaited, coDone, returned>>
             ELSE BodyGets(t, front[t], queue)
    /\ front' = [front EXCEPT ![t] = NoMessage]
    /\ UNCHANGED <<libVars, dispVars, extVars, arrived>>

\* the loop of runMidiCoroutineWithCallback after resume() has returned: sleep
\* and resume again, or, the coroutine being done, call resultHandler and let the
\* destructor remove the handler
WorkerChecksDone ==
    /\ coPc["worker"] = "check"
    /\ IF coDone
       THEN /\ coPc' = [coPc EXCEPT !["worker"] = "finished"]
            /\ messageHandlers_' = removeMessageHandler(World, callbackHandle_).messageHandlers_
       ELSE /\ coPc' = [coPc EXCEPT !["worker"] = "resume"]
            /\ UNCHANGED messageHandlers_
    /\ UNCHANGED <<nextHandle, libRest, dispVars, extVars, incomingMessages_, arrived, front, awaited,
                   coDone, returned>>

(***************************************************************************)
(* The specifications                                                      *)
(***************************************************************************)
InitLibrarian ==
    /\ \E m \in Methods, size \in 0..MaxBankSize :
         \E total \in (IF m = "STREAMING" THEN {-1, 2} ELSE {-1}),
            advance \in (IF m = "STREAMING" THEN BOOLEAN ELSE {FALSE}) :
               InitLibrarianWith(m, size, total, advance)
    /\ InitMidiController
    /\ InitDispatchIdle
    /\ InitCoroutineIdle
    /\ InitOutputsIdle
    /\ InitCatalogIdle
    /\ InitInterchangeIdle
    /\ InitSchemaIdle
    /\ InitBankSendIdle
    /\ InitCategoriesIdle
    /\ InitWireIdle
    /\ InitDiscoveryIdle
    /\ InitSynthBankIdle

NextLibrarian ==
    \/ \E bankNo \in BankNumbers : StartDownloadingBank(bankNo)
    \/ \E bankNo \in BankVectors : StartDownloadingAllPatches(bankNo)
    \/ UserAborts
    \/ \E message \in MessageKinds, isNext \in BOOLEAN, state \in HsStates :
          DeviceSendsMessage(message, isNext, state)
    \/ DeviceSendsPartial

SpecLibrarian == InitLibrarian /\ [][NextLibrarian]_vars

\* a single-bank download against a device that, once the user has
\* cancelled, sends nothing the download takes for a part of its answer
NextSilentDevice ==
    \/ \E bankNo \in BankNumbers : StartDownloadingBank(bankNo)
    \/ UserAborts
    \/ \E message \in MessageKinds, isNext \in BOOLEAN, state \in HsStates :
          /\ abortFlag => message = "other" /\ ~isNext
          /\ DeviceSendsMessage(message, isNext, state)
    \/ DeviceSendsPartial

\* the call that starts the download runs to its end; nothing is assumed of
\* the device and of the user
SpecSilentDevice ==
    /\ InitLibrarian
    /\ [][NextSilentDevice]_vars
    /\ WF_vars(\E bankNo \in BankNumbers : StartDownloadingBank(bankNo))

InitDispatch ==
    /\ InitLibrarianWith("PROGRAM_BUFFERS", 1, -1, FALSE)
    /\ InitMidiController
    /\ InitDispatchIdle
    /\ InitCoroutineIdle
    /\ InitOutputsIdle
    /\ InitCatalogIdle
    /\ InitInterchangeIdle
    /\ InitSchemaIdle
    /\ InitBankSendIdle
    /\ InitCategoriesIdle
    /\ InitWireIdle
    /\ InitDiscoveryIdle
    /\ InitSynthBankIdle

\* the passes of the input threads, with subscribers coming and going
NextDispatch ==
    \/ AddMessageHandler(-1)
    \/ \E handle \in Handles : RemoveMessageHandler(handle)
    \/ \E t \in Threads : BeginDispatch(t)
    \/ \E t \in Threads, effect \in Effects : CallHandler(t, effect)
    \/ \E t \in Threads : EndDispatch(t)

SpecDispatch == InitDispatch /\ [][NextDispatch]_vars

\* one input delivering messages over time to subscribers with and without a timeout
NextTimeout ==
    \/ \E timeout \in TimeoutChoices : AddMessageHandler(timeout)
    \/ \E handle \in Handles : RemoveMessageHandler(handle)
    \/ BeginDispatch("midiIn1")
    \/ CallHandler("midiIn1", <<"none", 0>>)
    \/ EndDispatch("midiIn1")
    \/ Tick

SpecTimeout == InitDispatch /\ [][NextTimeout]_vars

NextCoroutine ==
    \/ MessageArrives
    \/ \E t \in CoThreads, outcome \in {"returns", "continues", "crashes"} : Resume(t, outcome)
    \/ \E t \in CoThreads : AwaitResume(t)
    \/ \E t \in CoThreads : NextIncomingMessagePop(t)
    \/ WorkerChecksDone

SpecCoroutine == InitCoroutine /\ [][NextCoroutine]_vars

InitOutputs ==
    /\ InitLibrarianWith("PROGRAM_BUFFERS", 1, -1, FALSE)
    /\ InitMidiController
    /\ InitDispatchIdle
    /\ InitCoroutineIdle
    /\ InitOutputsIdle
    /\ InitCatalogIdle
    /\ InitInterchangeIdle
    /\ InitSchemaIdle
    /\ InitBankSendIdle
    /\ InitCategoriesIdle
    /\ InitWireIdle
    /\ InitDiscoveryIdle
    /\ InitSynthBankIdle

NextOutputs ==
    \/ \E id \in Endpoints, opens \in BOOLEAN : GetMidiOutput(id, opens)
    \/ \E id \in Endpoints : PlugOutput(id)
    \/ \E id \in Endpoints : UnplugOutput(id)
    \/ TimerCallback
    \/ \E h \in HeldHandles : SendMessageNow(h)
    \/ \E h \in HeldHandles : ReleaseOutput(h)

SpecOutputs == InitOutputs /\ [][NextOutputs]_vars

\* at most one synth is wired to the machine and answers the detect message
InitDiscovery ==
    /\ InitLibrarianWith("PROGRAM_BUFFERS", 1, -1, FALSE)
    /\ InitMidiController
    /\ InitDispatchIdle
    /\ InitCoroutineIdle
    /\ InitOutputsIdle
    /\ InitCatalogIdle
    /\ InitInterchangeIdle
    /\ InitSchemaIdle
    /\ InitBankSendIdle
    /\ InitCategoriesIdle
    /\ InitWireIdle
    /\ InitSynthBankIdle
    /\ respondingSynth \in {{}} \cup {{l} : l \in Locations}
    /\ detectPc = "create" /\ outputI = 0 /\ locationsFound = <<>>
    /\ detectQueue = <<>> /\ detectDone = FALSE /\ detectResult = <<>>
    /\ replyInFlight = {} /\ replied = FALSE /\ detectHandler = FALSE

NextDiscovery ==
    \/ DetectSynthCreate
    \/ \E reply \in [input : Inputs, channel : Channels], expired \in BOOLEAN,
          outcome \in {"continues", "returns", "crashes"} :
          DetectReplyArrives(reply, expired, outcome)
    \/ \E expired \in BOOLEAN, outcome \in {"continues", "returns", "crashes"} :
          DetectSynthResume(expired, outcome)
    \/ DetectSynthReturn

SpecDiscovery == InitDiscovery /\ [][NextDiscovery]_vars

\* the database file that is opened: a new one, or one that holds a patch of
\* synth A which a bank of the synth and a user list refer to
OpenedCatalogs ==
    LET patch == [synth |-> "A", data |-> 2, hidden |-> FALSE, source |-> "file"]
        bank == [id |-> "BankA", kind |-> "SynthBank", synth |-> "A", patches |-> <<patch>>]
        list == [id |-> "L1", kind |-> "PatchList", synth |-> NULL, patches |-> <<patch>>]
    IN  {EmptyCatalog,
         putPatchList(putPatchList(putPatch(EmptyCatalog, patch), bank, TRUE), list, TRUE)}

InitCatalog ==
    /\ InitLibrarianWith("PROGRAM_BUFFERS", 1, -1, FALSE)
    /\ InitMidiController
    /\ InitDispatchIdle
    /\ InitCoroutineIdle
    /\ InitOutputsIdle
    /\ InitDiscoveryIdle
    /\ InitInterchangeIdle
    /\ InitSchemaIdle
    /\ InitBankSendIdle
    /\ InitCategoriesIdle
    /\ InitWireIdle
    /\ InitSynthBankIdle
    /\ fingerprintVersion = 0 /\ catalogOps = 0
    /\ \E db \in OpenedCatalogs :
           patchTable = db.patches /\ lists = db.lists /\ patch_in_list = db.patch_in_list
    /\ lastOperation = "none" /\ bankReferenced = {}
    /\ mergeInput = <<>> /\ mergesDone = 0 /\ countsAfterOnce = <<0, 0, 0>>
    /\ reindexCall = NoReindexCall

\* the catalog is fed from files
FilePatches == {h \in PatchHolders : h.source = "file"}

\* the patch lists the callers store: a user list and a bank of synth A
StoredLists ==
    {[id |-> "L1", kind |-> "PatchList", synth |-> NULL, patches |-> ps] :
        ps \in UNION {[1..n -> FilePatches] : n \in 0..MaxListLen}}
    \cup {[id |-> "BankA", kind |-> "SynthBank", synth |-> "A", patches |-> ps] :
        ps \in UNION {[1..n -> {h \in FilePatches : h.synth = "A"}] : n \in 0..MaxListLen}}

\* the patches of one import have one provenance
IncomingPatches ==
    UNION {[1..n -> {h \in PatchHolders : h.source = source}] :
              n \in 0..MaxMergeLen, source \in Sources}

FileImports == {incoming \in IncomingPatches :
                   \A n \in DOMAIN incoming : incoming[n].source = "file"}

NextCatalog ==
    \/ \E patch \in FilePatches : PutPatch(patch)
    \/ \E incoming \in FileImports, createImportLists \in BOOLEAN :
          MergePatchesIntoDatabase(incoming, UPDATE_ALL, createImportLists)
    \/ \E patchList \in StoredLists : PutPatchList(patchList)
    \/ \E id \in ListIds, patch \in FilePatches, insertIndex \in 0..MaxListLen :
          AddPatchToList(id, patch, insertIndex)
    \/ \E filter \in PatchFilters : DeletePatchesByFilter(filter)
    \/ \E synth \in Synths, md5s \in UNION {[1..n -> PatchData] : n \in 0..Cardinality(PatchData)} :
          DeletePatchesByMd5(synth, md5s)
    \/ \E filter \in PatchFilters : ReindexPatches(filter)
    \/ FingerprintAlgorithmChanges

SpecCatalog == InitCatalog /\ [][NextCatalog]_vars

\* the user list of a catalog that holds the patches of synth A, edited
\* entry by entry
ListPatches == {h \in FilePatches : h.synth = "A"}
UserLists ==
    {[id |-> "L1", kind |-> "PatchList", synth |-> NULL, patches |-> ps] :
        ps \in UNION {[1..n -> ListPatches] : n \in 0..(MaxListLen + 1)}}
ListIndexes == 0..(MaxListLen + 1)

ListedCatalogs ==
    {putPatchList(mergePatchesIntoDatabase(EmptyCatalog, incoming, UPDATE_ALL).db,
                  patchList, TRUE) :
        incoming \in {imported \in FileImports :
                         \A n \in DOMAIN imported : imported[n].synth = "A"},
        patchList \in UserLists}

InitListOrder ==
    /\ InitLibrarianWith("PROGRAM_BUFFERS", 1, -1, FALSE)
    /\ InitMidiController
    /\ InitDispatchIdle
    /\ InitCoroutineIdle
    /\ InitOutputsIdle
    /\ InitDiscoveryIdle
    /\ InitInterchangeIdle
    /\ InitSchemaIdle
    /\ InitBankSendIdle
    /\ InitCategoriesIdle
    /\ InitWireIdle
    /\ InitSynthBankIdle
    /\ fingerprintVersion = 0 /\ catalogOps = 0
    /\ \E db \in ListedCatalogs :
           patchTable = db.patches /\ lists = db.lists /\ patch_in_list = db.patch_in_list
    /\ lastOperation = "none" /\ bankReferenced = {}
    /\ mergeInput = <<>> /\ mergesDone = 0 /\ countsAfterOnce = <<0, 0, 0>>
    /\ reindexCall = NoReindexCall

NextListOrder ==
    \/ \E patch \in ListPatches, previousIndex \in ListIndexes, newIndex \in ListIndexes,
          evaluation \in RenumEvaluations, tieOrder \in TieOrders :
          MovePatchInList("L1", patch, previousIndex, newIndex, evaluation, tieOrder)
    \/ \E patch \in ListPatches, order_num \in ListIndexes,
          evaluation \in RenumEvaluations, tieOrder \in TieOrders :
          RemovePatchFromList("L1", patch.synth, md5(patch), order_num, evaluation, tieOrder)
    \/ \E patch \in ListPatches, insertIndex \in ListIndexes :
          AddPatchToList("L1", patch, insertIndex)
    \/ \E patchList \in UserLists : PutPatchList(patchList)

SpecListOrder == InitListOrder /\ [][NextListOrder]_vars

\* the catalogs that imports from files and a stored list have left behind
\* when the fingerprint algorithm of the synths changes
IndexedCatalogs ==
    {putPatchList(mergePatches(EmptyCatalog, incoming, UPDATE_ALL), patchList, TRUE) :
        incoming \in FileImports, patchList \in StoredLists}

InitReindex ==
    /\ InitLibrarianWith("PROGRAM_BUFFERS", 1, -1, FALSE)
    /\ InitMidiController
    /\ InitDispatchIdle
    /\ InitCoroutineIdle
    /\ InitOutputsIdle
    /\ InitDiscoveryIdle
    /\ InitInterchangeIdle
    /\ InitSchemaIdle
    /\ InitBankSendIdle
    /\ InitCategoriesIdle
    /\ InitWireIdle
    /\ InitSynthBankIdle
    /\ fingerprintVersion = 0 /\ catalogOps = 0
    /\ \E db \in IndexedCatalogs :
           patchTable = db.patches /\ lists = db.lists /\ patch_in_list = db.patch_in_list
    /\ lastOperation = "none" /\ bankReferenced = {}
    /\ mergeInput = <<>> /\ mergesDone = 0 /\ countsAfterOnce = <<0, 0, 0>>
    /\ reindexCall = NoReindexCall

\* the filters of the advanced filter dialog: the synths, a user list or none
ReindexFilters == {filter \in PatchFilters : filter.listID \in {"", "L1"}}

NextReindex ==
    \/ FingerprintAlgorithmChanges
    \/ \E filter \in ReindexFilters : ReindexPatches(filter)

SpecReindex == InitReindex /\ [][NextReindex]_vars

\* one patch list is merged into the empty catalog, and merged again
InitMerge ==
    /\ InitLibrarianWith("PROGRAM_BUFFERS", 1, -1, FALSE)
    /\ InitMidiController
    /\ InitDispatchIdle
    /\ InitCoroutineIdle
    /\ InitOutputsIdle
    /\ InitDiscoveryIdle
    /\ InitInterchangeIdle
    /\ InitSchemaIdle
    /\ InitBankSendIdle
    /\ InitCategoriesIdle
    /\ InitWireIdle
    /\ InitSynthBankIdle
    /\ patchTable = <<>> /\ lists = <<>> /\ patch_in_list = <<>>
    /\ fingerprintVersion = 0 /\ catalogOps = 0
    /\ lastOperation = "none" /\ bankReferenced = {}
    /\ mergeInput \in IncomingPatches /\ mergesDone = 0 /\ countsAfterOnce = <<0, 0, 0>>
    /\ reindexCall = NoReindexCall

NextMerge == MergeSameList

SpecMerge == InitMerge /\ [][NextMerge]_vars

\* the lists handed to setPatches and copyListToPosition
GivenLists == UNION {[1..n -> ListedHolders] : n \in 0..MaxGiven}

\* a bank as SynthBank::SynthBank leaves it
InitSynthBank ==
    /\ InitLibrarianWith("PROGRAM_BUFFERS", 1, -1, FALSE)
    /\ InitMidiController
    /\ InitDispatchIdle
    /\ InitCoroutineIdle
    /\ InitOutputsIdle
    /\ InitDiscoveryIdle
    /\ InitCatalogIdle
    /\ InitInterchangeIdle
    /\ InitSchemaIdle
    /\ InitBankSendIdle
    /\ InitCategoriesIdle
    /\ InitWireIdle
    /\ InitSynthBankIdle

NextSynthBank ==
    \/ \E patches \in GivenLists : SetPatches(patches)
    \/ \E patch \in GivenHolders : AddPatch(patch)
    \/ \E patch \in GivenHolders : FillWithPatch(patch)
    \/ \E position \in 0..SlotsInBank, patch \in GivenHolders : UpdatePatchAtPosition(position, patch)
    \/ \E position \in 0..SlotsInBank, patch \in GivenHolders : ChangePatchAtPosition(position, patch)
    \/ \E position \in 0..SlotsInBank, list \in GivenLists : CopyListToPosition(position, list)
    \/ ClearDirty

SpecSynthBank == InitSynthBank /\ [][NextSynthBank]_vars

\* the banks a call finds: a new one, and what setPatches has made of a list,
\* with the places dirty that updatePatchAtPosition had changed before
PopulatedBanks ==
    {[patches |-> <<>>, dirty |-> {}]} \cup
    {bank \in [patches : {setPatches(<<>>, xs) : xs \in GivenLists},
               dirty : SUBSET (0..(SlotsInBank - 1))] : bank.patches # <<>>}

InitBankCall ==
    /\ InitLibrarianWith("PROGRAM_BUFFERS", 1, -1, FALSE)
    /\ InitMidiController
    /\ InitDispatchIdle
    /\ InitCoroutineIdle
    /\ InitOutputsIdle
    /\ InitDiscoveryIdle
    /\ InitCatalogIdle
    /\ InitInterchangeIdle
    /\ InitSchemaIdle
    /\ InitBankSendIdle
    /\ InitCategoriesIdle
    /\ InitWireIdle
    /\ \E bank \in PopulatedBanks :
          /\ patches_ = bank.patches
          /\ dirtyPositions_ = bank.dirty
    /\ bankCall = Call("none", 0) /\ bankOps = 0
    /\ bankTrace = NoTrace

NextBankCall ==
    \/ \E patches \in GivenLists : SetPatchesOnce(patches)
    \/ \E position \in 0..SlotsInBank, list \in GivenLists : CopyListToPositionOnce(position, list)

SpecBankCall == InitBankCall /\ [][NextBankCall]_vars

\* a new PatchList, the list handed to its setPatches, then one more call
NextPatchList ==
    \/ \E patches \in UNION {[1..n -> PatchListHolders] : n \in 0..MaxGiven} :
          PatchListSetPatches(patches)
    \/ \E patch \in PatchListHolders : PatchListAddPatch(patch)
    \/ \E patch \in PatchListHolders : InsertPatchAtTopAndRemoveDuplicates(patch)

SpecPatchList == InitSynthBank /\ [][NextPatchList]_vars

(***************************************************************************)
(* The interchange format: a list of holders is saved and loaded again, or *)
(* a document from elsewhere is loaded.                                    *)
(***************************************************************************)
\* the holder of the save test, and holders that differ from it in the
\* members the format writes on condition
SavedHolders ==
    {PifHolder(PifSynth, 1, "Bright Pad", "YES", ValidBank(3), 42, {"Pad"}, {"Pad", "SFX"},
               FromFileSource("input.syx", 4), "Very shiny", "Unit Tester",
               "Created for tests"),
     PifHolder(PifSynth, 2, "Muted Bass", "NO", InvalidBank, 11, {}, {},
               FromSynthSource(ValidBank(1)), "", "", ""),
     PifHolder(PifSynth, 2, "Init", "DONTKNOW", InvalidBank, 0, {"Lead"}, {"Lead"},
               FromSynthSource(InvalidBank), "", "", "")}
SavedLists == UNION {[1..n -> SavedHolders] : n \in 0..MaxSaved}

\* the entries of a document from elsewhere: a healthy one, and the defects
DocumentEntry(kind, place) ==
    [Synth |-> JString(IF kind = "unknown synth" THEN "UnknownSynth" ELSE PifSynth),
     Name |-> IF kind = "name is a number" THEN JNumber(5) ELSE JString("Entry"),
     Place |-> JNumber(place),
     Categories |-> JArray(IF kind = "unknown category"
                           THEN <<JString("Nonexistent"), JString("Pad")>>
                           ELSE <<JString("Bells")>>),
     Sysex |-> JString(IF kind = "malformed base64" THEN "%%%" ELSE dataToString(2))]
EntryKinds ==
    {"healthy", "unknown synth", "malformed base64", "unknown category", "name is a number"}
Libraries ==
    UNION {{[i \in 1..n |-> DocumentEntry(kinds[i], i)] : kinds \in [1..n -> EntryKinds]} :
           n \in 0..MaxDocumentLen}

InitInterchange ==
    /\ InitLibrarianWith("PROGRAM_BUFFERS", 1, -1, FALSE)
    /\ InitMidiController
    /\ InitDispatchIdle
    /\ InitCoroutineIdle
    /\ InitOutputsIdle
    /\ InitDiscoveryIdle
    /\ InitCatalogIdle
    /\ InitSynthBankIdle
    /\ InitInterchangeIdle
    /\ InitSchemaIdle
    /\ InitBankSendIdle
    /\ InitCategoriesIdle
    /\ InitWireIdle

NextInterchange ==
    \/ \E patches \in SavedLists : Save(patches)
    \/ \E library \in Libraries : WriteDocument(library)
    \/ Load

SpecInterchange == InitInterchange /\ [][NextInterchange]_vars

(***************************************************************************)
(* The categories of a catalog.  The catalog starts with the categories of *)
(* insertDefaultCategories or with as many as earlier sessions left it,    *)
(* numbered as getNextBitindex numbers them.  A caller of updateCategories *)
(* changes a category it read, or adds one under the bit index that        *)
(* getNextBitindex gave it last.                                           *)
(***************************************************************************)
\* insertDefaultCategories
DefaultCategories == 15
CategoryCounts == {DefaultCategories, MaxCategories - 1, MaxCategories}
CategoriesOf(count) ==
    {CategoryDefinition(i, IF i = 0 THEN "Lead" ELSE "Pad", i # 1) : i \in 0..(count - 1)}
DefinitionsGiven ==
    {CategoryDefinition(id, name, isActive) :
        id \in {0, maxbitindex}, name \in {"Lead", "Custom"}, isActive \in BOOLEAN}
NewdefsGiven == UNION {[1..n -> DefinitionsGiven] : n \in 1..MaxNewdefs}
RuleSets == {{"Lead"}, {"Lead", "Custom"}}

InitCategories ==
    /\ InitLibrarianWith("PROGRAM_BUFFERS", 1, -1, FALSE)
    /\ InitMidiController
    /\ InitDispatchIdle
    /\ InitCoroutineIdle
    /\ InitOutputsIdle
    /\ InitDiscoveryIdle
    /\ InitCatalogIdle
    /\ InitSynthBankIdle
    /\ InitInterchangeIdle
    /\ InitSchemaIdle
    /\ InitBankSendIdle
    /\ InitWireIdle
    /\ \E count \in CategoryCounts : categoriesTable = CategoriesOf(count)
    /\ maxbitindex = 0 /\ categorizer = "none" /\ categoryOps = 0

NextCategories ==
    \/ GetNextBitindex
    \/ \E newdefs \in NewdefsGiven : UpdateCategories(newdefs)
    \/ \E loadedRules_ \in RuleSets : GetCategorizer(loadedRules_)

SpecCategories == InitCategories /\ [][NextCategories]_vars

(***************************************************************************)
(* One open of a catalog file: a new file, a catalog of an older, of the   *)
(* current or of a later schema version, read-write or read-only.          *)
(***************************************************************************)
StoredVersions == {NoVersion} \cup 1..(SCHEMA_VERSION + MaxFutureVersions)
CatalogFiles == {CatalogFile(number, indexes) : number \in StoredVersions, indexes \in BOOLEAN}

InitSchema ==
    /\ InitLibrarianWith("PROGRAM_BUFFERS", 1, -1, FALSE)
    /\ InitMidiController
    /\ InitDispatchIdle
    /\ InitCoroutineIdle
    /\ InitOutputsIdle
    /\ InitDiscoveryIdle
    /\ InitCatalogIdle
    /\ InitSynthBankIdle
    /\ InitInterchangeIdle
    /\ InitCategoriesIdle
    /\ InitWireIdle
    /\ InitBankSendIdle
    /\ catalogFile \in CatalogFiles /\ beforeMigration = <<>>
    /\ fileAtOpen = catalogFile
    /\ mode_ \in {"READ_WRITE", "READ_ONLY"}
    /\ mode_ = "READ_ONLY" => catalogFile.number # NoVersion
    /\ currentVersion = NoVersion /\ hasBackuped = FALSE
    /\ openPc = "constructing" /\ thrown = "none"

NextSchema ==
    \/ CreateSchema
    \/ \E refused \in BOOLEAN : MigrateStep(refused)
    \/ Migrated

SpecSchema == InitSchema /\ [][NextSchema]_vars

(***************************************************************************)
(* The sends through one SafeMidiOutput, with an output or without one.    *)
(***************************************************************************)
MessagesSent == {EmptySysEx, MidiMessage(TRUE, 1), MidiMessage(FALSE, 0)}
\* what earlier sends have left on the output
ReachedBefore == {<<>>, <<MidiMessage(FALSE, 0)>>}
BuffersSent == UNION {[1..n -> MessagesSent] : n \in 0..MaxBufferLen}

InitWire ==
    /\ InitLibrarianWith("PROGRAM_BUFFERS", 1, -1, FALSE)
    /\ InitMidiController
    /\ InitDispatchIdle
    /\ InitCoroutineIdle
    /\ InitOutputsIdle
    /\ InitDiscoveryIdle
    /\ InitCatalogIdle
    /\ InitSynthBankIdle
    /\ InitInterchangeIdle
    /\ InitCategoriesIdle
    /\ InitSchemaIdle
    /\ InitBankSendIdle
    /\ midiOut_ \in {nullptr, 1}
    /\ wire \in (IF midiOut_ = nullptr THEN {<<>>} ELSE ReachedBefore)
    /\ debouncedAction = NoAction
    /\ sendCall = SendCall("none", <<>>, 0) /\ sends = 0

NextWire ==
    \/ \E message \in MessagesSent : SendNow(message)
    \/ \E message \in MessagesSent : SendMessageDebounced(message)
    \/ DebouncerTimerCallback
    \/ \E buffer \in BuffersSent : SendBlockOfMessagesFullSpeed(buffer)
    \/ \E buffer \in BuffersSent : SendVectorOfMessagesFullSpeed(buffer)
    \/ \E buffer \in BuffersSent : SendBlockOfMessagesThrottled(buffer)

SpecWire == InitWire /\ [][NextWire]_vars

(***************************************************************************)
(* One sendBankToSynth on the per-patch path: a bank with some positions   *)
(* dirty, sent in full or in part, with a progress handler or without.     *)
(***************************************************************************)
BankSizes == 0..SlotsInBank
SendBankCalls ==
    {SendBankCall(size, dirtyPositions, fullBank, progressHandler) :
        size \in BankSizes, dirtyPositions \in SUBSET (0..SlotsInBank),
        fullBank \in BOOLEAN, progressHandler \in BOOLEAN}

InitBankSend ==
    /\ InitLibrarianWith("PROGRAM_BUFFERS", 1, -1, FALSE)
    /\ InitMidiController
    /\ InitDispatchIdle
    /\ InitCoroutineIdle
    /\ InitOutputsIdle
    /\ InitDiscoveryIdle
    /\ InitCatalogIdle
    /\ InitSynthBankIdle
    /\ InitInterchangeIdle
    /\ InitCategoriesIdle
    /\ InitSchemaIdle
    /\ InitWireIdle
    /\ sendBankCall \in SendBankCalls /\ sendBankPc = "sending"
    /\ sendBankI = 0 /\ sentToSynth = <<>> /\ abortRequested = FALSE
    /\ finishedHandlerCalls = <<>>

NextBankSend ==
    \/ SendNextPatch
    \/ SendBankFinished
    \/ CancelBankSend

SpecBankSend == InitBankSend /\ [][NextBankSend]_vars

(***************************************************************************)
(* Claims about the bank download engine (SpecLibrarian)                   *)
(***************************************************************************)
NoSubscriptionLeft == messageHandlers_ = {} /\ partialHandlers_ = {} /\ handles_ = <<>>

\* C1: whenever a completion callback (onFinished, onSuccess, onCancel) is
\* invoked, every subscription its download registered - message handlers and
\* partial SysEx handlers alike - has been removed from the registry.
C1_SubscriptionsRemovedAtCompletion == ~leakedAtCompletion

\* the scenario of C2: one bank, the program-dump loop, a device that answers
\* each request with one complete program dump, nobody cancels
C2_Scenario ==
    /\ started /\ method = "PROGRAM_BUFFERS" /\ Len(bankNo_) <= 1
    /\ deviceOk /\ ~abortFlag

\* with n requests to make: never more than n requests, finished exactly when
\* the n-th dump has arrived, then once, with n holders and no subscription left
C2_Loop(n) ==
    /\ requestsSent <= n
    /\ finishedCalls = (IF dumpsAnswered >= n THEN 1 ELSE 0)
    /\ finishedCalls = 1 =>
          requestsSent = n /\ Len(finishedPatches) = n /\ NoSubscriptionLeft

C3_AbortIsReported ==
    abortObserved => nCancel >= 1 /\ ~successAfterAbort /\ NoSubscriptionLeft

\* C8: the handshake lambda delivers patches to the finished callback (and
\* reports success) only in a protocol state that is finished and successful.
C8_HandshakeDeliversOnlyFinishedAndSuccessful ==
    \A state \in hsDeliveredIn : state.isFinished /\ state.wasSuccessful

\* C9: in a multi-bank download of N banks neither the caller's finished
\* callback nor onSuccess is invoked before all N banks are complete; the
\* finished callback fires once, with the patches of all banks in bank order.
C9_NoCompletionBeforeAllBanks ==
    /\ (nSuccess >= 1 \/ finishedCalls >= 1) => banksCompleted = TotalBanks(World)
    /\ finishedCalls <= 1
    /\ finishedCalls = 1 /\ bankNo_ # <<>> =>
          \A i, j \in DOMAIN finishedPatches :
              i < j => finishedPatches[i].bank <= finishedPatches[j].bank

\* C10: every value passed to setProgressPercentage is a fraction in [0, 1]
C10_ProgressIsFraction ==
    lastProgress[2] > 0 /\ 0 <= lastProgress[1] /\ lastProgress[1] <= lastProgress[2]
(***************************************************************************)
(* Claims about the handler dispatch of MidiController                     *)
(***************************************************************************)
Range(f) == {f[i] : i \in DOMAIN f}

\* C4: while an input thread is in a dispatch pass, the callbacks it has
\* invoked are exactly the ones registered when the pass began that it has not
\* still to call, each invoked once, whatever was subscribed or unsubscribed
\* since, by a callback or by another thread; and the pass can always take its
\* next step.  At the end of the pass these are exactly the callbacks that
\* were registered when it began.
C4_PassCallsSnapshotExactlyOnce ==
    \A t \in Threads : passPc[t] = "calling" =>
        /\ \A h \in Handles :
              invoked[t][h] = IF h \in registeredAtBegin[t] /\ h \notin Range(newhandlers[t])
                              THEN 1 ELSE 0
        /\ ENABLED (CallHandler(t, <<"none", 0>>) \/ EndDispatch(t))

\* a pass is through, a handler it called has been unsubscribed since it began
\* and a handler subscribed since it began has not been called
C4_Witness ==
    \E t \in Threads :
        /\ passPc[t] = "calling" /\ newhandlers[t] = <<>>
        /\ \E h \in registeredAtBegin[t] : h \notin RegisteredHandles /\ invoked[t][h] = 1
        /\ \E h \in RegisteredHandles : h \notin registeredAtBegin[t] /\ invoked[t][h] = 0

\* C5: a handler subscribed with timeoutMs > 0 to which nothing has been
\* delivered for timeoutMs milliseconds has received the timeout sentinel; a
\* handler subscribed without a positive timeout has received none.
C5_TimeoutSentinelDelivered ==
    \A h \in RegisteredHandles :
        /\ (timeoutMs[h] > 0 /\ now - lastActivityMs[h] >= timeoutMs[h])
              => timeoutsDelivered[h] >= 1
        /\ timeoutMs[h] <= 0 => timeoutsDelivered[h] = 0

(***************************************************************************)
(* Claims about MidiCoroutine                                              *)
(***************************************************************************)
\* C6: every value an await of the task returned was handed to the task body
\* on the worker thread: the body never runs on the MIDI input thread.
C6_TaskBodyOnlyOnWorker ==
    \A i \in 1..Len(returned) : returned[i].thread = "worker"

\* C7: the messages the awaits of the task have returned are the first
\* arrivals, each once and in the order of arrival.
C7_ArrivalsReturnedOnceInOrder ==
    LET messages == SelectSeq(returned, LAMBDA r : r.message # NoMessage)
    IN \A i \in 1..Len(messages) : messages[i].message = i

(***************************************************************************)
(* Claims about the MIDI outputs                                           *)
(***************************************************************************)
\* C11: every SafeMidiOutput a caller holds either is invalid (its midiOut_ is
\* null) or points to a MidiOutput that has not been destroyed, so that no
\* message is ever sent through a MidiOutput the poll has closed.
C11_LostOutputHandlesInvalid ==
    /\ \A h \in heldOutputs : h.midiOut_ = nullptr \/ h.midiOut_ \in devicesAlive
    /\ ~reachedClosedDevice

(***************************************************************************)
(* Claims about the discovery                                              *)
(***************************************************************************)
\* C12: when detectSynth has returned and the one synth that answers the detect
\* message has answered, the result is exactly the one location (the input of
\* the synth, the output the probe was sent on, its channel); when no synth
\* answers, the result is empty.
C12_DiscoveryReturnsTheOneLocation ==
    detectPc = "returned" =>
        /\ (respondingSynth = {} => detectResult = <<>>)
        /\ \A s \in respondingSynth : replied => detectResult = <<s>>

(***************************************************************************)
(* Claims about the catalog (SpecCatalog, SpecMerge)                       *)
(***************************************************************************)
\* C13: whatever putPatch, mergePatchesIntoDatabase, reindexPatches and
\* deletePatches calls were made, the patch table holds at most one row for
\* each pair of synth name and fingerprint.
C13_OneRowPerSynthAndFingerprint ==
    \A i, j \in DOMAIN patchTable :
        patchTable[i].synth = patchTable[j].synth /\ patchTable[i].md5 = patchTable[j].md5
            => i = j

\* after two operations, two synths hold a patch of the same fingerprint
C13_Witness ==
    /\ catalogOps >= 2
    /\ \E i, j \in DOMAIN patchTable :
           patchTable[i].synth # patchTable[j].synth /\ patchTable[i].md5 = patchTable[j].md5

\* C14: merging the same patch list into the empty catalog twice leaves as
\* many patch rows, lists and list entries as merging it once.
C14_MergeTwiceCountsAsOnce ==
    mergesDone = 2 => CatalogCounts(Catalog) = countsAfterOnce

\* a list of two patches of two synths was merged twice
C14_Witness ==
    /\ mergesDone = 2
    /\ Len(patchTable) >= 2 /\ Len(lists) >= 2 /\ Len(patch_in_list) >= 2

\* C15: after deletePatches(filter), every patch the filter selected that a
\* synth bank list holds is still in the patch table, marked hidden, and no
\* list entry is left without its patch.
C15_DeletionHidesWhatBanksHold ==
    lastOperation = "deletePatches(filter)" =>
        /\ \A key \in bankReferenced :
               \E i \in DOMAIN patchTable :
                   PatchKey(patchTable[i]) = key /\ patchTable[i].hidden
        /\ \A j \in DOMAIN patch_in_list :
               \E i \in DOMAIN patchTable : References(patch_in_list[j], patchTable[i])

\* C16: whatever catalog operations were made, every row of patch_in_list
\* refers to a (synth, md5) that the patch table holds.
C16_ListEntriesReferToPatches ==
    \A j \in DOMAIN patch_in_list :
        HasPatch(Catalog, patch_in_list[j].synth, patch_in_list[j].md5)

\* an operation left a hidden patch behind that a list entry refers to
C16_Witness ==
    /\ catalogOps >= 1
    /\ \E i \in DOMAIN patchTable : patchTable[i].hidden
    /\ Len(patch_in_list) = 1

\* C17: for every filter, getPatchesCount returns the number of patches that
\* getPatches returns with skip 0 and limit -1.
C17_CountIsNumberOfPatchesReturned ==
    \A filter \in PatchFilters :
        getPatchesCount(Catalog, filter) = Len(getPatches(Catalog, filter).result)


(***************************************************************************)
(* Claims about SynthBank                                                  *)
(***************************************************************************)
\* C18: from a bank whose list has exactly bank_size entries, every operation
\* of SynthBank (setPatches, addPatch, updatePatchAtPosition,
\* changePatchAtPosition, fillWithPatch, copyListToPosition) leaves a list of
\* exactly bank_size entries.
C18_BankKeepsBankSizeEntries ==
    [][Len(patches_) = SlotsInBank => Len(patches_') = SlotsInBank]_vars

\* result is xs, renumbered for the bank, then holders without patch
C19_IsNormalized(xs, result) ==
    /\ Len(result) = SlotsInBank
    /\ \A i \in 1..Len(xs) :
          result[i] = [xs[i] EXCEPT !.bank = bankNumber, !.program = i - 1,
                                    !.programBank = bankNumber]
    /\ \A i \in (Len(xs) + 1)..SlotsInBank :
          result[i].patch = nullptr /\ result[i].program = i - 1

\* C19 as stated: after setPatches(xs) with len(xs) <= bank_size the bank has
\* exactly bank_size entries, entry i < len(xs) is xs[i] with the bank's number
\* and program number i, and every later entry is a holder without patch with
\* program number i.
C19_SetPatchesNormalizes ==
    bankTrace.traced /\ bankCall.op = "setPatches" /\ Len(bankTrace.list) <= SlotsInBank
        => C19_IsNormalized(bankTrace.list, patches_)

\* C19, amended: the same, for xs that holds patches of the synth of the bank
\* only.
C19_SetPatchesNormalizesOwnPatches ==
    /\ bankTrace.traced /\ bankCall.op = "setPatches"
    /\ Len(bankTrace.list) <= SlotsInBank
    /\ \A i \in 1..Len(bankTrace.list) : bankTrace.list[i].synth = synth_
    => C19_IsNormalized(bankTrace.list, patches_)

\* setPatches, handed PatchA with the program number bank_size, has put it on
\* place 0 of a bank that held other patches and a holder without patch on the
\* last place
C19_Witness ==
    /\ bankTrace.traced /\ bankCall.op = "setPatches"
    /\ Len(bankTrace.list) = 1 /\ bankTrace.list[1].program = SlotsInBank
    /\ bankTrace.before.patches # <<>>
    /\ bankTrace.before.patches[1].name = "PatchB"
    /\ Len(patches_) = SlotsInBank
    /\ patches_[1].name = "PatchA" /\ patches_[1].program = 0
    /\ patches_[SlotsInBank].patch = nullptr
    /\ patches_[SlotsInBank].program = SlotsInBank - 1

\* the patches of list that are of the synth of the bank, in the order of list
C20_OwnPatches(list) == SelectSeq(list, LAMBDA holder : holder.synth = synth_)

\* the places copyListToPosition(position, list) is to write in a bank of
\* size places
C20_Written(position, list, size) ==
    {w \in position..(size - 1) : w - position < Len(C20_OwnPatches(list))}

\* place w of the bank holds the patch of holder
C20_Holds(bank, w, holder) ==
    /\ bank[w + 1].patch = holder.patch
    /\ bank[w + 1].name = holder.name
    /\ bank[w + 1].synth = holder.synth

\* C20: copyListToPosition(p, donor) writes the patches of the donor that are
\* of the synth of the bank, in the order of the donor, to the places from p
\* on, up to the end of the bank; the written places become dirty, and every
\* other place keeps its patch and its dirty state.
C20_CopyWritesOwnPatchesAndMarksThem ==
    bankTrace.traced /\ bankCall.op = "copyListToPosition" =>
        LET before == bankTrace.before
            position == bankTrace.position
            written == C20_Written(position, bankTrace.list, Len(before.patches))
        IN  /\ Len(patches_) >= Len(before.patches)
            /\ \A w \in written :
                  C20_Holds(patches_, w, C20_OwnPatches(bankTrace.list)[w - position + 1])
            /\ dirtyPositions_ = before.dirty \cup written
            /\ \A w \in 0..(Len(before.patches) - 1) \ written :
                  C20_Holds(patches_, w, before.patches[w + 1])

\* a copy to place 0 of a full bank has skipped the patch of another synth
\* that stood between PatchA and PatchB in the donor, and has written the two
\* to the places 0 and 1, which are dirty now
C20_Witness ==
    /\ bankTrace.traced /\ bankCall.op = "copyListToPosition"
    /\ bankCall.skipped = 1
    /\ bankTrace.position = 0
    /\ Len(bankTrace.list) = 3 /\ bankTrace.list[2].synth = ForeignSynth
    /\ Len(bankTrace.before.patches) = SlotsInBank
    /\ bankTrace.before.patches[1].name = "PatchB"
    /\ bankTrace.before.dirty = {}
    /\ patches_[1].name = "PatchA" /\ patches_[2].name = "PatchB"
    /\ dirtyPositions_ = {0, 1}


\* C21: when setPatches, addPatch, updatePatchAtPosition,
\* changePatchAtPosition or fillWithPatch is handed a patch of another synth,
\* the call leaves the bank as it was: the same list of patches and the same
\* dirty positions.
C21_ForeignPatchLeavesBankUnchanged ==
    [][(\/ \E patch \in GivenHolders, position \in 0..SlotsInBank :
              /\ patch.synth # synth_
              /\ \/ AddPatch(patch)
                 \/ FillWithPatch(patch)
                 \/ UpdatePatchAtPosition(position, patch)
                 \/ ChangePatchAtPosition(position, patch)
        \/ \E patches \in GivenLists :
              /\ \E i \in 1..Len(patches) : patches[i].synth # synth_
              /\ SetPatches(patches))
       => UNCHANGED <<patches_, dirtyPositions_>>]_vars


(***************************************************************************)
(* Claims about PatchList                                                  *)
(***************************************************************************)
\* the entries of list that are not of the synth and the fingerprint of patch
C22_Others(list, patch) ==
    SelectSeq(list, LAMBDA listEntry :
        listEntry.synth # patch.synth \/ holderMd5(listEntry) # holderMd5(patch))

\* C22: after insertPatchAtTopAndRemoveDuplicates(p), p is at index 0, no
\* other entry has both the synth and the fingerprint of p, and the entries
\* that differ from p in synth or fingerprint are all kept, in the order they
\* had.
C22_InsertAtTopReplacesDuplicates ==
    bankCall.op = "PatchList::insertPatchAtTopAndRemoveDuplicates" =>
        LET p == bankTrace.list[1]
        IN  /\ patches_[1] = p
            /\ \A i \in 2..Len(patches_) :
                  ~(patches_[i].synth = p.synth /\ holderMd5(patches_[i]) = holderMd5(p))
            /\ SubSeq(patches_, 2, Len(patches_)) = C22_Others(bankTrace.before.patches, p)

\* the list held a patch of the synth and the fingerprint of p under another
\* name and a patch of the same fingerprint of another synth: the first is
\* gone, the second is kept
C22_Witness ==
    /\ bankCall.op = "PatchList::insertPatchAtTopAndRemoveDuplicates"
    /\ bankTrace.list[1].name = "PatchA"
    /\ Len(bankTrace.before.patches) = 3
    /\ bankTrace.before.patches[1].synth = ForeignSynth
    /\ holderMd5(bankTrace.before.patches[1]) = holderMd5(bankTrace.list[1])
    /\ bankTrace.before.patches[2].name = "PatchB"
    /\ bankTrace.before.patches[2].synth = synth_
    /\ holderMd5(bankTrace.before.patches[2]) = holderMd5(bankTrace.list[1])
    /\ Len(patches_) = 3
    /\ patches_[2].synth = ForeignSynth

\* C23: after list.setPatches(xs) and then list.addPatch(y), the list is xs
\* followed by y.
C23_AddPatchAppends ==
    bankCall.op = "PatchList::addPatch" => patches_ = bankTrace.list

\* a patch has been added to a list of two other patches
C23_Witness ==
    /\ bankCall.op = "PatchList::addPatch"
    /\ Len(patches_) = 3
    /\ patches_[1].name = "PatchA" /\ patches_[2].name = "Foreign"
    /\ patches_[3].name = "PatchB"
    /\ bankTrace.before.patches = SubSeq(patches_, 1, 2)


(***************************************************************************)
(* Claims about PatchInterchangeFormat.                                    *)
(***************************************************************************)
\* what the user decided about the categories of a holder
userDecided(holder) ==
    [categories |-> holder.categories \cap holder.userDecisions,
     nonCategories |-> holder.userDecisions \ holder.categories]

\* the members of a holder that a round trip is to keep
RoundTripMembers(holder) ==
    [md5 |-> calculateFingerprint(0, holder.data), name |-> holder.name,
     favorite |-> holder.favorite, bank |-> holder.bank, program |-> holder.program,
     userDecided |-> userDecided(holder), comment |-> holder.comment,
     author |-> holder.author, info |-> holder.info, sourceInfo |-> holder.sourceInfo]

\* C24: for any list of holders of synths the loader knows, loading what
\* save wrote returns, entry by entry, the same fingerprint, name, favorite,
\* bank, program, user-decided categories, comment, author, info and source
\* info.
C24_LoadReturnsWhatWasSaved ==
    pifPc = "reloaded" =>
        /\ Len(loadedPatches) = Len(savedPatches)
        /\ \A i \in 1..Len(savedPatches) :
               RoundTripMembers(loadedPatches[i]) = RoundTripMembers(savedPatches[i])

\* the entries of a document that cannot be loaded themselves: those of an
\* unknown synth, with malformed base64 data, or with a name that is no string
IsOmitted(item) ==
    \/ item.Synth.s \notin activeSynths
    \/ ~convertFromBase64(item.Sysex.s).ok
    \/ item.Name.t # "string"
RemainingEntries == SelectSeq(document.Library, LAMBDA item : ~IsOmitted(item))

\* C25: a defective entry of a document never keeps the other entries from
\* loading: the entries of an unknown synth or with malformed base64 are
\* omitted and all the others are returned in the order of the document, an
\* unknown category name costs an entry only that one category.
C25_DefectiveEntryIsLeftOutAlone ==
    pifPc = "loaded" =>
        /\ Len(loadedPatches) = Len(RemainingEntries)
        /\ \A i \in 1..Len(RemainingEntries) :
               /\ loadedPatches[i].program = RemainingEntries[i].Place.n
               /\ loadedPatches[i].categories \cap loadedPatches[i].userDecisions
                    = categoriesFound(RemainingEntries[i], "Categories")


(***************************************************************************)
(* Claims about the categories of a catalog.                               *)
(***************************************************************************)
\* every row has a bit index of its own from 0..62
BitIndicesAreValid(table) ==
    /\ \A row \in table : row.bitIndex \in 0..(MaxCategories - 1)
    /\ \A row, other \in table : row.bitIndex = other.bitIndex => row = other

\* C26: after any sequence of getNextBitindex, updateCategories and
\* getCategorizer every stored category has a bit index of its own from
\* 0..62, no row was deleted and no bit index changed, and a catalog of 63
\* categories gets no further one.
C26_CategoriesKeepTheirBitIndices ==
    [][/\ BitIndicesAreValid(categoriesTable) => BitIndicesAreValid(categoriesTable')
       /\ bitIndices(categoriesTable) \subseteq bitIndices(categoriesTable')
       /\ Cardinality(categoriesTable) >= MaxCategories
            => Cardinality(categoriesTable') <= Cardinality(categoriesTable)]_vars


C28_FutureSchemaFailsWithItsOwnError ==
    fileAtOpen.number > SCHEMA_VERSION /\ openPc # "constructing"
        => /\ openPc = "failed"
           /\ thrown # PatchDatabaseExceptionOf("SQLITE_ERROR")
           /\ catalogFile.number = fileAtOpen.number
           /\ catalogFile.migrated = {}


(***************************************************************************)
(* Claims about the sends of SafeMidiOutput.                               *)
(***************************************************************************)
\* the messages of the last call that are no empty SysEx, in their order
NonEmptyOfCall ==
    SelectSeq(sendCall.buffer, LAMBDA message : ~(message.isSysEx /\ message.sysExDataSize = 0))
ReachedByCall == SubSeq(wire, sendCall.before + 1, Len(wire))

AbsentBefore(incoming) ==
    {i \in DOMAIN incoming : ~HasPatch(Catalog, incoming[i].synth, md5(incoming[i]))}

\* C30: after a merge every incoming patch whose (synth, fingerprint) the
\* catalog lacked is in the catalog under that (synth, fingerprint), also
\* when a patch of the same fingerprint is in the catalog, or earlier in the
\* batch, under another synth.
C30_MergeStoresEverySynthsPatch ==
    [][\A incoming \in FileImports, createImportLists \in BOOLEAN :
           MergePatchesIntoDatabase(incoming, UPDATE_ALL, createImportLists)
               => \A i \in AbsentBefore(incoming) :
                      \E row \in DOMAIN patchTable' :
                          /\ patchTable'[row].synth = incoming[i].synth
                          /\ patchTable'[row].md5 = md5(incoming[i])]_vars


(***************************************************************************)
(* Claims about deleting by filter, list by list.                          *)
(***************************************************************************)
\* the lists of the bank types hold the patch
HeldByBankList(db, row) ==
    \E l \in DOMAIN db.lists, j \in DOMAIN db.patch_in_list :
        /\ db.lists[l].id = db.patch_in_list[j].id
        /\ db.lists[l].list_type \in {SYNTH_BANK, USER_BANK}
        /\ References(db.patch_in_list[j], row)

\* the patches a filter without a list id selects
SelectedRows(db, filter) ==
    {i \in DOMAIN db.patches : buildWhereClause(filter, db.patches[i], NoEntryRow)}

\* C31: deletePatches(filter), the filter naming no list, removes every
\* selected patch that no synth bank and no user bank holds, the members of
\* import lists and of normal lists included, and hides a selected patch
\* only where such a bank holds it.
C31_DeletionRemovesWhatNoBankHolds ==
    [][\A filter \in PatchFilters :
           (filter.listID = "" /\ DeletePatchesByFilter(filter))
               => \A i \in SelectedRows(Catalog, filter) :
                      IF HeldByBankList(Catalog, patchTable[i])
                      THEN \E n \in DOMAIN patchTable' :
                               /\ PatchKey(patchTable'[n]) = PatchKey(patchTable[i])
                               /\ patchTable'[n].hidden
                      ELSE \A n \in DOMAIN patchTable' :
                               PatchKey(patchTable'[n]) # PatchKey(patchTable[i])]_vars


(***************************************************************************)
(* Claims about reindexPatches as one transaction.                         *)
(***************************************************************************)
\* the entry of a list referred to the stored fingerprint of a flagged patch
RekeyedBy(entry, flagged) ==
    {n \in DOMAIN flagged :
        entry.synth = flagged[n].patch.synth /\ entry.md5 = flagged[n].md5stored}

\* the re-keying of the flagged patches is complete in the catalog
CompleteRekeying(before, flagged) ==
    /\ flagged # <<>>
    /\ \A n \in DOMAIN flagged :
           /\ HasPatch(Catalog, flagged[n].patch.synth, md5(flagged[n].patch))
           /\ ~HasPatch(Catalog, flagged[n].patch.synth, flagged[n].md5stored)
    /\ lists = before.lists
    /\ DOMAIN patch_in_list = DOMAIN before.patch_in_list
    /\ \A j \in DOMAIN patch_in_list :
           LET was == before.patch_in_list[j]
           IN  IF RekeyedBy(was, flagged) = {}
               THEN patch_in_list[j] = was
               ELSE \E n \in RekeyedBy(was, flagged) :
                        patch_in_list[j] = [was EXCEPT !.md5 = md5(flagged[n].patch)]

\* C32: reindexPatches either commits the complete re-keying (every flagged
\* patch is stored under its recomputed fingerprint, every list entry that
\* referred to the old fingerprint refers to the new one, every stale row is
\* gone) or leaves the patch table, the lists and the list entries as they
\* were; where it gives up (-1 is returned: a filter of more than one synth,
\* a count of deleted rows that is not the count of flagged patches) they
\* are as they were.
C32_ReindexIsAllOrNothing ==
    reindexCall.called =>
        /\ \/ Catalog = reindexCall.db
           \/ CompleteRekeying(reindexCall.db, reindexCall.flagged)
        /\ reindexCall.returned = -1 => Catalog = reindexCall.db
        /\ reindexCall.returned # -1 /\ reindexCall.flagged # <<>>
               => CompleteRekeying(reindexCall.db, reindexCall.flagged)
        /\ Cardinality(reindexCall.synths) > 1 => reindexCall.returned = -1

\* a patch that a list refers to was re-keyed
C32_Witness ==
    /\ reindexCall.called
    /\ Catalog # reindexCall.db
    /\ \E j \in DOMAIN reindexCall.db.patch_in_list :
           RekeyedBy(reindexCall.db.patch_in_list[j], reindexCall.flagged) # {}

\* reindexPatches gave up and the flagged patches are as they were
C32_AbortWitness ==
    /\ reindexCall.called
    /\ Cardinality(reindexCall.synths) = 1
    /\ Len(reindexCall.flagged) = 2
    /\ reindexCall.returned = -1


(***************************************************************************)
(* Claims about the migration of an older catalog.                         *)
(***************************************************************************)
\* C33: when a catalog of a schema version v with 1 <= v < SCHEMA_VERSION is
\* opened read-write, the blocks of migrateSchema are applied for v+1 up to
\* SCHEMA_VERSION in increasing order, every block that the file system does
\* not refuse succeeds, the stored version never decreases, and the
\* migration returns with the stored version SCHEMA_VERSION.
C33_OlderCatalogMigratesStepByStep ==
    [][mode_ = "READ_WRITE" /\ fileAtOpen.number \in 1..(SCHEMA_VERSION - 1)
           => /\ MigrateStep(FALSE)
                  => /\ openPc' = "migrating"
                     /\ catalogFile'.number = catalogFile.number + 1
                     /\ catalogFile'.migrated = (fileAtOpen.number + 1)..catalogFile'.number
              /\ catalogFile'.number >= catalogFile.number
              /\ Migrated => catalogFile.number = SCHEMA_VERSION]_vars


(***************************************************************************)
(* Claims about sending a bank patch by patch.                             *)
(***************************************************************************)
\* the positions below n that the call has to send, in ascending order
RECURSIVE PositionsToSend(_, _)
PositionsToSend(call, n) ==
    IF n = 0 THEN <<>>
    ELSE IF call.fullBank \/ (n - 1) \in call.dirtyPositions
         THEN Append(PositionsToSend(call, n - 1), n - 1)
         ELSE PositionsToSend(call, n - 1)

C34_Witness ==
    /\ ~sendBankCall.fullBank /\ sendBankCall.size = 2
    /\ sendBankCall.dirtyPositions = {1}
    /\ finishedHandlerCalls = <<TRUE>>
    /\ sentToSynth = <<1>>

C35_NoCallAfterUnsubscribe ==
    [][\A t \in Threads, handle \in Handles :
           invoked'[t][handle] = invoked[t][handle] + 1
               => handle \in RegisteredHandles]_vars


(***************************************************************************)
(* Claims about who resumes a protocol task, and when.                     *)
(***************************************************************************)
\* the threads that execute the body of the coroutine
Executing == {t \in CoThreads : coPc[t] \in {"await_resume", "pop"}}

\* C36: the coroutine of a protocol task is never resumed while it is
\* executing, never executed by two threads at once, and never resumed
\* after it has completed: the resume of the handler on the I/O thread and
\* the resume of the polling loop exclude each other.
C36_ResumesExcludeEachOther ==
    [][/\ Cardinality(Executing) <= 1
       /\ \A t \in CoThreads :
              coPc[t] = "resume" /\ coPc'[t] # "resume"
                  => ~coDone /\ ~RunningElsewhere(t)]_vars

\* C37: an await of IncomingMidiMessage completes only when the queue of the
\* task holds a message: await_resume is never reached with an empty queue,
\* so no await returns the empty MidiMessageWithDevice.
C37_AwaitReturnsAnArrival ==
    \A n \in DOMAIN returned : returned[n].message # NoMessage


(***************************************************************************)
(* Claims about cancelling a download the device does not answer.          *)
(***************************************************************************)
\* C38: when the abort flag is set while a single-bank download waits for
\* the device, and the device sends no further message that belongs to the
\* download, the download still eventually removes its handlers and reports
\* the cancellation.
C38_SilentDeviceAbortIsReported ==
    (abortFlag /\ messageHandlers_ # {}) ~> (messageHandlers_ = {} /\ nCancel >= 1)


(***************************************************************************)
(* Claims about the order of the entries of a stored list.                 *)
(***************************************************************************)
\* C39: after any sequence of putPatchList, addPatchToList, movePatchInList
\* and removePatchFromList on a stored list with n entries, the order_num
\* values of the entries of the list are exactly 0..n-1, without gaps and
\* without duplicates.
C39_OrderNumsAreDense ==
    LET rows == {i \in DOMAIN patch_in_list : patch_in_list[i].id = "L1"}
    IN  /\ {patch_in_list[i].order_num : i \in rows} = 0..(Cardinality(rows) - 1)
        /\ \A i, j \in rows :
              patch_in_list[i].order_num = patch_in_list[j].order_num => i = j


(***************************************************************************)
(* Claims about the change of one position of a bank.                      *)
(***************************************************************************)
\* C40: changePatchAtPosition(p, patch) changes position p of the bank only.
\* Every other position, the empty slots among them, keeps its content and
\* its dirty state, and p is dirty afterwards exactly when it was before or
\* the fingerprint or the name stored at p changed.  Stated for a patch of
\* the bank's synth put on a position that holds a patch.
C40_ChangeTouchesOnePosition ==
    [][\A position \in 0..(SlotsInBank - 1), patch \in GivenHolders :
          (/\ position < Len(patches_)
           /\ patch.synth = synth_
           /\ md5IsDefined(patch) /\ md5IsDefined(patches_[position + 1])
           /\ ChangePatchAtPosition(position, patch))
          => /\ Len(patches_') = Len(patches_)
             /\ \A other \in 0..(Len(patches_) - 1) :
                   other # position =>
                      /\ patches_'[other + 1] = patches_[other + 1]
                      /\ (other \in dirtyPositions_') = (other \in dirtyPositions_)
             /\ (position \in dirtyPositions_') =
                   \/ position \in dirtyPositions_
                   \/ patches_[position + 1].patch # patch.patch
                   \/ patches_[position + 1].name # patch.name]_vars

=============================================================================
